---- MODULE Spec2Model ----
(***************************************************************************)
(* Model of contracts/ConfidentialTokenFactory.sol: one Sale Ledger        *)
(* (ConfidentialERC7984Token) with its public supply counter, price,       *)
(* owner, reentrancy guard, clear view of the confidential balances and    *)
(* the native (wei) balances of the ledger and of the accounts calling it. *)
(* Every step of the model is one whole transaction: a handler runs to     *)
(* its end, nested calls made by the receiver of a native value transfer   *)
(* included, and then either commits or reverts.                           *)
(***************************************************************************)
EXTENDS Integers, Sequences, FiniteSets, TLC

\* ---------------------------------------------------------------- bounds
MaxSupply == 2
InitialWei == 2
\* inputs of the quote specification
MaxQuoteAmount == 8
MaxQuoteQuarters == 8
\* ledgers the registry deploys
MaxTokens == 2
\* width the clients check amounts against, standing for the 64 of uint64
UintBits == 21

\* ------------------------------------------------------------- constants
TOKEN_BASE == 1000000

Accounts == {"a1", "a2"}
ZeroAddress == "0x0"
Self == "ledger"
Holders == Accounts \cup {Self}

\* uint64 amounts a caller may pass (one above the largest supply included)
Amounts == 0 .. (MaxSupply + 1)
\* uint256 prices: free, half a wei per base unit (quotes round up), one wei
Prices == {0, TOKEN_BASE \div 2, TOKEN_BASE}

\* amounts and prices the quote specification asks quotes for: every quarter
\* of a TOKEN_BASE and the wei just above it
QuoteAmounts == 0 .. MaxQuoteAmount
QuotePrices == {k * (TOKEN_BASE \div 4) + d : k \in 0 .. MaxQuoteQuarters, d \in {0, 1}}

NOT_ENTERED == "NOT_ENTERED"
ENTERED == "ENTERED"

VARIABLES
    totalSupplyClear,       \* uint64 immutable
    remainingForSaleClear,  \* uint64
    pricePerTokenWei,       \* uint256
    owner,                  \* Ownable._owner
    status,                 \* ReentrancyGuard._status
    confidentialBalance,    \* clear value of each holder's encrypted balance
    ethBalance,             \* native balance of the ledger and the accounts
    soldTotal,              \* history: sum of amount over successful buys
    collectedWei,           \* history: sum of requiredWei over successful buys
    withdrawnWei,           \* history: sum of amountWei over successful withdraws
    receipt,                \* outcome of the last transaction
    allTokens,              \* ConfidentialTokenFactory._allTokens
    tokensByCreator,        \* ConfidentialTokenFactory._tokensByCreator
    deployed,               \* contracts the factory has created (its nonce)
    requests,               \* what the last client operation sent to the chain
    other,                  \* storage and wei of the ledger deployed before
    pending,                \* client operations between their read and their transaction
    market                  \* state of the TokenMarketplace component

vars == <<totalSupplyClear, remainingForSaleClear, pricePerTokenWei, owner,
          status, confidentialBalance, ethBalance, soldTotal, collectedWei,
          withdrawnWei, receipt, allTokens, tokensByCreator, deployed,
          requests, other, pending, market>>

\* the state of the browser, which no call on the chain touches
uiVars == <<pending, market>>

\* The ledger's storage and the native balances as one value, so that a
\* handler is a function from the state before the call to its outcome.
State ==
    [totalSupplyClear |-> totalSupplyClear,
     remainingForSaleClear |-> remainingForSaleClear,
     pricePerTokenWei |-> pricePerTokenWei,
     owner |-> owner,
     status |-> status,
     confidentialBalance |-> confidentialBalance,
     ethBalance |-> ethBalance]

\* storage and wei of a contract address at which no ledger is deployed
NoLedger ==
    [totalSupplyClear |-> 0,
     remainingForSaleClear |-> 0,
     pricePerTokenWei |-> 0,
     owner |-> ZeroAddress,
     status |-> NOT_ENTERED,
     confidentialBalance |-> [h \in Holders |-> 0],
     eth |-> 0]

\* a user's client with no operation under way. An operation goes through
\* stages: "row" (the front end has loaded the ledger's row and seen its
\* remaining supply), "quoted" (quoteBuy was read), "predicted" (createToken
\* was called statically), "done" (the transaction was sent, or given up)
Idle ==
    [stage |-> "idle", via |-> "none", amount |-> 0, seen |-> 0, left |-> 0,
     requiredWei |-> 0, predicted |-> 0, result |-> "none"]

\* TokenMarketplace when it is mounted: useState and useRef initial values;
\* runs are the loadTokens calls that have not finished
Mounted ==
    [address |-> "none", publicClient |-> TRUE, factoryAddress |-> "factory",
     loadIdRef |-> 0, isLoading |-> FALSE, error |-> "null", tokens |-> <<>>,
     myTokenAddresses |-> {}, runs |-> {}]

\* The registry's storage. The ledger variables above are those of the ledger
\* the registry deployed last.
Registry ==
    [allTokens |-> allTokens, tokensByCreator |-> tokensByCreator, deployed |-> deployed]

\* address(deployed): the address of the n-th contract the factory creates
TokenAddress(n) == n

\* string name_, string symbol_
Labels == {[name |-> "Alpha", symbol |-> "ALP"], [name |-> "Beta", symbol |-> "BET"]}

\* ------------------------------------------------------- call outcomes
NoArgs == <<>>

Success(s, evs, nested) ==
    [ok |-> TRUE, err |-> "none", data |-> NoArgs, st |-> s,
     events |-> evs, nested |-> nested]

\* variant: the read takes the guard and keeps it
ReturnEntered(s, v) ==
    [ok |-> TRUE, err |-> "none", data |-> <<v>>, st |-> [s EXCEPT !.status = ENTERED],
     events |-> <<>>, nested |-> "-"]

\* a view call: returns a value, leaves the state alone, emits nothing
Return(s, v) ==
    [ok |-> TRUE, err |-> "none", data |-> <<v>>, st |-> s,
     events |-> <<>>, nested |-> "-"]

\* a revert discards every state change and every event of the call
Revert(s0, e, args, nested) ==
    [ok |-> FALSE, err |-> e, data |-> args, st |-> s0,
     events |-> <<>>, nested |-> nested]

\* ------------------------------------------------------------- quoteBuy
\* variant: rounds down
mulDivFloor(x, y, d) == (x * y) \div d

\* Math.mulDiv(x, y, d, Rounding.Ceil): floor of the full product, plus one
\* when the remainder is not zero
mulDivCeil(x, y, d) ==
    LET prod == x * y
        q == prod \div d
    IN  IF prod % d > 0 THEN q + 1 ELSE q

\* variant: a free ledger still charges one wei
quoteBuyMinimumOne(s, amount) ==
    IF amount = 0 THEN 0
    ELSE IF s.pricePerTokenWei = 0 THEN 1
    ELSE mulDivCeil(amount, s.pricePerTokenWei, TOKEN_BASE)

quoteBuy(s, amount) ==
    IF amount = 0 THEN 0
    ELSE IF s.pricePerTokenWei = 0 THEN 0
    ELSE mulDivCeil(amount, s.pricePerTokenWei, TOKEN_BASE)

\* ------------------------------------------------- transfers of tokens, wei
\* variant: a transfer of the sender's whole balance moves nothing
confidentialTransferStrict(bal, from, to, amount) ==
    LET transferred == IF bal[from] > amount THEN amount ELSE 0
    IN  [h \in DOMAIN bal |->
            IF h = from THEN bal[h] - transferred
            ELSE IF h = to THEN bal[h] + transferred
            ELSE bal[h]]

\* variant: the tokens move the other way
confidentialTransferBack(bal, from, to, amount) ==
    LET transferred == IF bal[to] >= amount THEN amount ELSE 0
    IN  [h \in DOMAIN bal |->
            IF h = to THEN bal[h] - transferred
            ELSE IF h = from THEN bal[h] + transferred
            ELSE bal[h]]

\* ERC7984._transfer(from, to, amount): moves the whole amount, or nothing
\* when the sender's balance does not cover it
confidentialTransfer(bal, from, to, amount) ==
    LET transferred == IF bal[from] >= amount THEN amount ELSE 0
    IN  [h \in DOMAIN bal |->
            IF h = from THEN bal[h] - transferred
            ELSE IF h = to THEN bal[h] + transferred
            ELSE bal[h]]

\* variant: the wei leave the payer and reach nobody
sendValueUncredited(eth, from, to, v) == [eth EXCEPT ![from] = @ - v]

\* native value moved by a call: msg.value on entry, call{value: v}("")
sendValue(eth, from, to, v) ==
    [h \in DOMAIN eth |->
        IF h = from THEN eth[h] - v
        ELSE IF h = to THEN eth[h] + v
        ELSE eth[h]]

\* --------------------------------------------- code run by a value receiver
\* The receiver of call{value: ..}("") is arbitrary code: it may make one
\* call back into the ledger (as msg.sender = the receiver) and then either
\* returns (accept) or reverts.
NoCall == [op |-> "none", amount |-> 0, value |-> 0, to |-> ZeroAddress, price |-> 0]

NestedCalls ==
    {NoCall}
    \cup {[op |-> "buy", amount |-> 1, value |-> v, to |-> ZeroAddress, price |-> 0] :
            v \in 0 .. 1}
    \cup {[op |-> "withdraw", amount |-> 1, value |-> 0, to |-> t, price |-> 0] :
            t \in Accounts}
    \cup {[op |-> "setPricePerTokenWei", amount |-> 0, value |-> 0, to |-> ZeroAddress,
           price |-> p] : p \in Prices}

\* a receiver that reverts undoes whatever it did, so only its refusal counts
Callbacks ==
    {[accept |-> TRUE, call |-> c] : c \in NestedCalls}
    \cup {[accept |-> FALSE, call |-> NoCall]}
PlainAccept == [accept |-> TRUE, call |-> NoCall]

RECURSIVE buy(_, _, _, _, _)
RECURSIVE withdraw(_, _, _, _, _)
RECURSIVE nestedCall(_, _, _)

receive(s, callee, cb) ==
    LET r == nestedCall(s, callee, cb.call)
    IN  [ok |-> cb.accept, st |-> r.st, events |-> r.events,
         nested |-> IF cb.call.op = "none" THEN "-"
                    ELSE IF r.ok THEN "ok" ELSE r.err]

\* --------------------------------------------------------------- modifiers
Unauthorized == "OwnableUnauthorizedAccount"
Reentrant == "ReentrancyGuardReentrantCall"

\* ---------------------------------------------------------------- events
\* variant: the event reports what the ledger kept as the payment
TokenPurchasedNet(buyer, amount, requiredWei, paidWei) ==
    [name |-> "TokenPurchased", who |-> buyer, amount |-> amount,
     a |-> requiredWei, b |-> requiredWei]

TokenPurchased(buyer, amount, requiredWei, paidWei) ==
    [name |-> "TokenPurchased", who |-> buyer, amount |-> amount,
     a |-> requiredWei, b |-> paidWei]
PriceUpdated(old, new) ==
    [name |-> "PriceUpdated", who |-> ZeroAddress, amount |-> 0, a |-> old, b |-> new]
Withdrawn(to, amountWei) ==
    [name |-> "Withdrawn", who |-> to, amount |-> 0, a |-> amountWei, b |-> 0]
OwnershipTransferred(old, new) ==
    [name |-> "OwnershipTransferred", who |-> new, amount |-> 0, a |-> 0, b |-> 0]
TokenCreated(creator, token, name_, symbol_, totalSupplyClear_, pricePerTokenWei_) ==
    [name |-> "TokenCreated", who |-> creator, amount |-> totalSupplyClear_,
     a |-> pricePerTokenWei_, b |-> 0, token |-> token, tokenName |-> name_,
     symbol |-> symbol_]

\* ------------------------------------------------------------------- buy
\* variant: the decrement is left out
decrementSupplySkipped(remaining, amount) == remaining

\* remainingForSaleClear -= amount
decrementSupply(remaining, amount) == remaining - amount

\* variant: the excess is kept
refundOfNothing(value, requiredWei) == 0

\* variant: one wei of the excess is kept
refundOfOneShort(value, requiredWei) ==
    IF value > requiredWei THEN value - requiredWei - 1 ELSE 0

\* uint256 refund = msg.value - requiredWei
refundOf(value, requiredWei) == value - requiredWei

\* variant: the result of the refund transfer is not looked at
buyRefundUnchecked(s0, s1, sender, refund, ev, cb) ==
    LET s2 == [s1 EXCEPT !.ethBalance = sendValue(@, Self, sender, refund)]
        got == receive(s2, sender, cb)
    IN  IF ~got.ok
        THEN Success([s1 EXCEPT !.status = NOT_ENTERED], <<ev>>, got.nested)
        ELSE Success([got.st EXCEPT !.status = NOT_ENTERED],
                     Append(got.events, ev), got.nested)

\* variant: the failure is reported but what the call did so far is kept
buyRefundNoRollback(s0, s1, sender, refund, ev, cb) ==
    LET s2 == [s1 EXCEPT !.ethBalance = sendValue(@, Self, sender, refund)]
        got == receive(s2, sender, cb)
    IN  IF ~got.ok
        THEN Revert([s1 EXCEPT !.status = NOT_ENTERED], "RefundFailed", NoArgs, got.nested)
        ELSE Success([got.st EXCEPT !.status = NOT_ENTERED],
                     Append(got.events, ev), got.nested)

\* the refund transfer and what follows it: RefundFailed undoes the call
buyRefund(s0, s1, sender, refund, ev, cb) ==
    LET s2 == [s1 EXCEPT !.ethBalance = sendValue(@, Self, sender, refund)]
        got == receive(s2, sender, cb)
    IN  IF ~got.ok
        THEN Revert(s0, "RefundFailed", NoArgs, got.nested)
        ELSE Success([got.st EXCEPT !.status = NOT_ENTERED],
                     Append(got.events, ev), got.nested)

\* variant: the guard is not taken for the time of the call
buySettleUnguarded(s0, sender, amount, value, requiredWei, cb) ==
    LET s1 == [s0 EXCEPT
                 !.ethBalance = sendValue(@, sender, Self, value),
                 !.remainingForSaleClear = decrementSupply(@, amount),
                 !.confidentialBalance = confidentialTransfer(@, Self, sender, amount)]
        refund == refundOf(value, requiredWei)
        ev == TokenPurchased(sender, amount, requiredWei, value)
    IN  IF refund > 0
        THEN buyRefund(s0, s1, sender, refund, ev, cb)
        ELSE Success([s1 EXCEPT !.status = NOT_ENTERED], <<ev>>, "-")

\* effects of buy once its three checks have passed
buySettle(s0, sender, amount, value, requiredWei, cb) ==
    LET s1 == [s0 EXCEPT
                 !.status = ENTERED,
                 !.ethBalance = sendValue(@, sender, Self, value),
                 !.remainingForSaleClear = decrementSupply(@, amount),
                 !.confidentialBalance = confidentialTransfer(@, Self, sender, amount)]
        refund == refundOf(value, requiredWei)
        ev == TokenPurchased(sender, amount, requiredWei, value)
    IN  IF refund > 0
        THEN buyRefund(s0, s1, sender, refund, ev, cb)
        ELSE Success([s1 EXCEPT !.status = NOT_ENTERED], <<ev>>, "-")

\* variant: the amount is compared with the supply minted at construction
soldOutOfSupply(s, amount) == amount > s.totalSupplyClear

\* variant: the last unit can never be bought
soldOutInclusive(s, amount) == amount >= s.remainingForSaleClear

\* if (amount > remainingForSaleClear) revert SoldOut()
soldOut(s, amount) == amount > s.remainingForSaleClear

\* variant: the exact payment is refused
insufficientPaymentStrict(value, requiredWei) == value <= requiredWei

\* variant: a payment one wei short is let through
insufficientPaymentLax(value, requiredWei) == value + 1 < requiredWei

\* if (msg.value < requiredWei) revert InsufficientPayment(requiredWei, msg.value)
insufficientPayment(value, requiredWei) == value < requiredWei

\* variant: the payment is compared before the inventory
buyPaymentFirst(s0, sender, amount, value, cb) ==
    IF s0.status = ENTERED THEN Revert(s0, Reentrant, NoArgs, "-")
    ELSE IF amount = 0 THEN Revert(s0, "InvalidAmount", NoArgs, "-")
    ELSE LET requiredWei == quoteBuy(s0, amount)
         IN  IF insufficientPayment(value, requiredWei)
             THEN Revert(s0, "InsufficientPayment", <<requiredWei, value>>, "-")
             ELSE IF soldOut(s0, amount) THEN Revert(s0, "SoldOut", NoArgs, "-")
             ELSE buySettle(s0, sender, amount, value, requiredWei, cb)

buy(s0, sender, amount, value, cb) ==
    IF s0.status = ENTERED THEN Revert(s0, Reentrant, NoArgs, "-")
    ELSE IF amount = 0 THEN Revert(s0, "InvalidAmount", NoArgs, "-")
    ELSE IF soldOut(s0, amount) THEN Revert(s0, "SoldOut", NoArgs, "-")
    ELSE LET requiredWei == quoteBuy(s0, amount)
         IN  IF insufficientPayment(value, requiredWei)
             THEN Revert(s0, "InsufficientPayment", <<requiredWei, value>>, "-")
             ELSE buySettle(s0, sender, amount, value, requiredWei, cb)

\* ------------------------------------------------------ setPricePerTokenWei
\* variant: the price of a sold-out ledger is frozen
setPricePerTokenWeiOnSale(s0, sender, newPricePerTokenWei) ==
    IF sender # s0.owner THEN Revert(s0, Unauthorized, <<sender>>, "-")
    ELSE IF s0.remainingForSaleClear = 0 THEN Revert(s0, "SoldOut", NoArgs, "-")
    ELSE Success([s0 EXCEPT !.pricePerTokenWei = newPricePerTokenWei],
                 <<PriceUpdated(s0.pricePerTokenWei, newPricePerTokenWei)>>, "-")

setPricePerTokenWei(s0, sender, newPricePerTokenWei) ==
    IF sender # s0.owner THEN Revert(s0, Unauthorized, <<sender>>, "-")
    ELSE Success([s0 EXCEPT !.pricePerTokenWei = newPricePerTokenWei],
                 <<PriceUpdated(s0.pricePerTokenWei, newPricePerTokenWei)>>, "-")

\* -------------------------------------------------------------- withdraw
\* variant: only the balance is compared
invalidWithdrawLax(s, to, amountWei) == amountWei > s.ethBalance[Self]

\* if (to == address(0) || amountWei == 0) revert InvalidWithdraw();
\* if (amountWei > address(this).balance) revert InvalidWithdraw();
invalidWithdraw(s, to, amountWei) ==
    \/ to = ZeroAddress \/ amountWei = 0
    \/ amountWei > s.ethBalance[Self]

\* variant: onlyOwner is missing
withdrawByAnyone(s0, sender, to, amountWei, cb) ==
    IF s0.status = ENTERED THEN Revert(s0, Reentrant, NoArgs, "-")
    ELSE IF invalidWithdraw(s0, to, amountWei) THEN Revert(s0, "InvalidWithdraw", NoArgs, "-")
    ELSE LET s1 == [s0 EXCEPT
                      !.status = ENTERED,
                      !.ethBalance = sendValue(@, Self, to, amountWei)]
             got == receive(s1, to, cb)
         IN  IF ~got.ok
             THEN Revert(s0, "InvalidWithdraw", NoArgs, got.nested)
             ELSE Success([got.st EXCEPT !.status = NOT_ENTERED],
                          Append(got.events, Withdrawn(to, amountWei)), got.nested)

\* variant: a successful payout leaves the guard taken
withdrawGuardHeld(s0, sender, to, amountWei, cb) ==
    IF sender # s0.owner THEN Revert(s0, Unauthorized, <<sender>>, "-")
    ELSE IF s0.status = ENTERED THEN Revert(s0, Reentrant, NoArgs, "-")
    ELSE IF invalidWithdraw(s0, to, amountWei) THEN Revert(s0, "InvalidWithdraw", NoArgs, "-")
    ELSE LET s1 == [s0 EXCEPT
                      !.status = ENTERED,
                      !.ethBalance = sendValue(@, Self, to, amountWei)]
             got == receive(s1, to, cb)
         IN  IF ~got.ok
             THEN Revert(s0, "InvalidWithdraw", NoArgs, got.nested)
             ELSE Success(got.st,
                          Append(got.events, Withdrawn(to, amountWei)), got.nested)

withdraw(s0, sender, to, amountWei, cb) ==
    IF sender # s0.owner THEN Revert(s0, Unauthorized, <<sender>>, "-")
    ELSE IF s0.status = ENTERED THEN Revert(s0, Reentrant, NoArgs, "-")
    ELSE IF invalidWithdraw(s0, to, amountWei) THEN Revert(s0, "InvalidWithdraw", NoArgs, "-")
    ELSE LET s1 == [s0 EXCEPT
                      !.status = ENTERED,
                      !.ethBalance = sendValue(@, Self, to, amountWei)]
             got == receive(s1, to, cb)
         IN  IF ~got.ok
             THEN Revert(s0, "InvalidWithdraw", NoArgs, got.nested)
             ELSE Success([got.st EXCEPT !.status = NOT_ENTERED],
                          Append(got.events, Withdrawn(to, amountWei)), got.nested)

\* ------------------------------------------------- Ownable (inherited)
transferOwnership(s0, sender, newOwner) ==
    IF sender # s0.owner THEN Revert(s0, Unauthorized, <<sender>>, "-")
    ELSE IF newOwner = ZeroAddress THEN Revert(s0, "OwnableInvalidOwner", <<newOwner>>, "-")
    ELSE Success([s0 EXCEPT !.owner = newOwner],
                 <<OwnershipTransferred(s0.owner, newOwner)>>, "-")

renounceOwnership(s0, sender) ==
    IF sender # s0.owner THEN Revert(s0, Unauthorized, <<sender>>, "-")
    ELSE Success([s0 EXCEPT !.owner = ZeroAddress],
                 <<OwnershipTransferred(s0.owner, ZeroAddress)>>, "-")

\* ------------------------------------------------- constructor, createToken
\* _mint(address(this), FHE.asEuint64(totalSupply_))
mint(bal, totalSupply_) == [bal EXCEPT ![Self] = @ + totalSupply_]

\* the ledger a deployment starts from: empty storage at a fresh address;
\* the callers keep their wei
Undeployed(eth) ==
    [totalSupplyClear |-> 0,
     remainingForSaleClear |-> 0,
     pricePerTokenWei |-> 0,
     owner |-> ZeroAddress,
     status |-> NOT_ENTERED,
     confidentialBalance |-> [h \in Holders |-> 0],
     ethBalance |-> [h \in Holders |-> IF h = Self THEN 0 ELSE eth[h]]]

\* variant: an empty supply is let through
constructorAnySupply(s0, totalSupply_, pricePerTokenWei_, owner_) ==
    IF owner_ = ZeroAddress THEN Revert(s0, "OwnableInvalidOwner", <<owner_>>, "-")
    ELSE Success([Undeployed(s0.ethBalance) EXCEPT
                    !.owner = owner_,
                    !.totalSupplyClear = totalSupply_,
                    !.remainingForSaleClear = totalSupply_,
                    !.pricePerTokenWei = pricePerTokenWei_,
                    !.confidentialBalance = mint(@, totalSupply_)],
                 <<OwnershipTransferred(ZeroAddress, owner_)>>, "-")

\* Ownable(owner_) runs before the body
constructor(s0, totalSupply_, pricePerTokenWei_, owner_) ==
    IF owner_ = ZeroAddress THEN Revert(s0, "OwnableInvalidOwner", <<owner_>>, "-")
    ELSE IF totalSupply_ = 0 THEN Revert(s0, "InvalidAmount", NoArgs, "-")
    ELSE Success([Undeployed(s0.ethBalance) EXCEPT
                    !.owner = owner_,
                    !.totalSupplyClear = totalSupply_,
                    !.remainingForSaleClear = totalSupply_,
                    !.pricePerTokenWei = pricePerTokenWei_,
                    !.confidentialBalance = mint(@, totalSupply_)],
                 <<OwnershipTransferred(ZeroAddress, owner_)>>, "-")

\* address(this) of the registry
Factory == "factory"

\* variant: the deployer, which is the registry, becomes the owner
ownerArgumentDeployer(sender) == Factory

\* the owner_ argument createToken passes to the constructor: msg.sender
ownerArgument(sender) == sender

\* variant: the new address is put in front
pushFront(list, token) == <<token>> \o list

\* variant: the new address is stored twice
pushTwice(list, token) == Append(Append(list, token), token)

\* _allTokens.push(token), _tokensByCreator[msg.sender].push(token)
push(list, token) == Append(list, token)

\* view functions of the registry
allTokensLength(reg) == Len(reg.allTokens)
getAllTokens(reg) == reg.allTokens

\* variant: every creator is shown the list of all tokens
getTokensByCreatorAll(reg, creator) == reg.allTokens

getTokensByCreator(reg, creator) == reg.tokensByCreator[creator]

\* outcome of a call on the registry: that of the deployment, and the lists
createToken(reg, s0, sender, label, totalSupplyClear_, pricePerTokenWei_) ==
    LET made == constructor(s0, totalSupplyClear_, pricePerTokenWei_,
                            ownerArgument(sender))
        token == TokenAddress(reg.deployed + 1)
    IN  IF ~made.ok
        THEN [out |-> Revert(s0, made.err, made.data, "-"), reg |-> reg]
        ELSE [out |-> [Success(made.st,
                               Append(made.events,
                                      TokenCreated(sender, token, label.name, label.symbol,
                                                   totalSupplyClear_, pricePerTokenWei_)),
                               "-") EXCEPT !.data = <<token>>],
              reg |-> [allTokens |-> push(reg.allTokens, token),
                       tokensByCreator |->
                          [reg.tokensByCreator EXCEPT ![sender] = push(@, token)],
                       deployed |-> reg.deployed + 1]]

\* a call made by the receiver of a value transfer, while the outer call runs
nestedCall(s, sender, c) ==
    IF c.op = "buy" /\ c.value <= s.ethBalance[sender]
        THEN buy(s, sender, c.amount, c.value, PlainAccept)
    ELSE IF c.op = "withdraw"
        THEN withdraw(s, sender, c.to, c.amount, PlainAccept)
    ELSE IF c.op = "setPricePerTokenWei"
        THEN setPricePerTokenWei(s, sender, c.price)
    ELSE Revert(s, "nocall", NoArgs, "-")

\* ------------------------------------------------------------ transactions
\* what a transaction leaves behind: the function called, whether it
\* reverted, the error and its arguments (or the returned value), the events
\* emitted, the outcome of the call a value receiver made meanwhile, and the
\* arguments of a call that went through
Input(sender, amount, value, to, price) ==
    [sender |-> sender, amount |-> amount, value |-> value, to |-> to, price |-> price]

NoInput == Input(ZeroAddress, 0, 0, ZeroAddress, 0)

\* a reverted call leaves nothing behind but its error
Receipt(op, input, r) ==
    [op |-> op, input |-> IF r.ok THEN input ELSE NoInput,
     ok |-> r.ok, err |-> r.err, data |-> r.data,
     events |-> r.events, nested |-> r.nested]

\* sum of one field over the events of one kind in a transaction's log
RECURSIVE EventSumFrom(_, _, _, _)
EventSumFrom(evs, nm, field, i) ==
    IF i > Len(evs) THEN 0
    ELSE (IF evs[i].name = nm THEN evs[i][field] ELSE 0)
         + EventSumFrom(evs, nm, field, i + 1)

EventSum(evs, nm, field) == EventSumFrom(evs, nm, field, 1)

\* the outcome of a transaction becomes the new state; the history counters
\* follow the purchase and withdrawal events the transaction emitted
Settle(op, input, r) ==
    /\ remainingForSaleClear' = r.st.remainingForSaleClear
    /\ pricePerTokenWei' = r.st.pricePerTokenWei
    /\ owner' = r.st.owner
    /\ status' = r.st.status
    /\ confidentialBalance' = r.st.confidentialBalance
    /\ ethBalance' = r.st.ethBalance
    /\ soldTotal' = soldTotal + EventSum(r.events, "TokenPurchased", "amount")
    /\ collectedWei' = collectedWei + EventSum(r.events, "TokenPurchased", "a")
    /\ withdrawnWei' = withdrawnWei + EventSum(r.events, "Withdrawn", "a")
    /\ receipt' = Receipt(op, input, r)
    /\ UNCHANGED <<totalSupplyClear, allTokens, tokensByCreator, deployed>>

\* a call made directly on the ledger: no client is involved, and the ledger
\* deployed before is not the one called
Commit(op, input, r) ==
    Settle(op, input, r) /\ UNCHANGED <<requests, other>> /\ UNCHANGED uiVars

\* a creation replaces the ledger the model follows by the new one; a failed
\* creation leaves the ledger and the lists as they were
SettleCreate(input, r) ==
    /\ totalSupplyClear' = r.out.st.totalSupplyClear
    /\ remainingForSaleClear' = r.out.st.remainingForSaleClear
    /\ pricePerTokenWei' = r.out.st.pricePerTokenWei
    /\ owner' = r.out.st.owner
    /\ status' = r.out.st.status
    /\ confidentialBalance' = r.out.st.confidentialBalance
    /\ ethBalance' = r.out.st.ethBalance
    /\ soldTotal' = IF r.out.ok THEN 0 ELSE soldTotal
    /\ collectedWei' = IF r.out.ok THEN 0 ELSE collectedWei
    /\ withdrawnWei' = IF r.out.ok THEN 0 ELSE withdrawnWei
    /\ receipt' = Receipt("createToken", input, r.out)
    /\ allTokens' = r.reg.allTokens
    /\ tokensByCreator' = r.reg.tokensByCreator
    /\ deployed' = r.reg.deployed

CommitCreate(input, r) ==
    SettleCreate(input, r) /\ UNCHANGED <<requests, other>> /\ UNCHANGED uiVars

\* constructor: one ledger on its own, deployed with owner_ and a supply of
\* at least 1; the registry, which its calls never touch, lists nothing
Init ==
    /\ totalSupplyClear \in 1 .. MaxSupply
    /\ remainingForSaleClear = totalSupplyClear
    /\ pricePerTokenWei \in Prices
    /\ owner \in Accounts
    /\ status = NOT_ENTERED
    /\ confidentialBalance = [h \in Holders |-> IF h = Self THEN totalSupplyClear ELSE 0]
    /\ ethBalance = [h \in Holders |-> IF h = Self THEN 0 ELSE InitialWei]
    /\ soldTotal = 0
    /\ collectedWei = 0
    /\ withdrawnWei = 0
    /\ receipt = [op |-> "constructor",
                  input |-> Input(owner, totalSupplyClear, 0, ZeroAddress, pricePerTokenWei),
                  ok |-> TRUE, err |-> "none", data |-> NoArgs,
                  events |-> <<>>, nested |-> "-"]
    /\ allTokens = <<>>
    /\ tokensByCreator = [a \in Accounts |-> <<>>]
    /\ deployed = 0
    /\ requests = <<>>
    /\ other = NoLedger
    /\ pending = [a \in Accounts |-> Idle]
    /\ market = Mounted

Buy(sender, amount, value, cb) ==
    \E r \in {buy(State, sender, amount, value, cb)} :
       Commit("buy", Input(sender, amount, value, ZeroAddress, 0), r)

SetPricePerTokenWei(sender, newPrice) ==
    \E r \in {setPricePerTokenWei(State, sender, newPrice)} :
       Commit("setPricePerTokenWei", Input(sender, 0, 0, ZeroAddress, newPrice), r)

Withdraw(sender, to, amountWei, cb) ==
    \E r \in {withdraw(State, sender, to, amountWei, cb)} :
       Commit("withdraw", Input(sender, amountWei, 0, to, 0), r)

TransferOwnership(sender, newOwner) ==
    \E r \in {transferOwnership(State, sender, newOwner)} :
       Commit("transferOwnership", Input(sender, 0, 0, newOwner, 0), r)

RenounceOwnership(sender) ==
    \E r \in {renounceOwnership(State, sender)} :
       Commit("renounceOwnership", Input(sender, 0, 0, ZeroAddress, 0), r)

\* ----------------------------------------------------- inputs of the calls
\* msg.value is bounded by what the caller owns
Values(sender) == 0 .. ethBalance[sender]

\* receiver code runs only in a call that reaches its value transfer
BuyCallbacks(amount, value) ==
    IF amount # 0 /\ amount <= remainingForSaleClear /\ value > quoteBuy(State, amount)
    THEN Callbacks ELSE {PlainAccept}

WithdrawCallbacks(sender, to, amountWei) ==
    IF sender = owner /\ to # ZeroAddress /\ amountWei # 0 /\ amountWei <= ethBalance[Self]
    THEN Callbacks ELSE {PlainAccept}

\* recipients and wei amounts of a withdrawal: up to one above the balance
Recipients == Accounts \cup {ZeroAddress}
WeiAmounts == 0 .. (ethBalance[Self] + 1)

Next ==
    \/ \E sender \in Accounts, amount \in Amounts : \E value \in Values(sender) :
          \E cb \in BuyCallbacks(amount, value) : Buy(sender, amount, value, cb)
    \/ \E sender \in Accounts, p \in Prices : SetPricePerTokenWei(sender, p)
    \/ \E sender \in Accounts, to \in Recipients : \E w \in WeiAmounts :
          \E cb \in WithdrawCallbacks(sender, to, w) : Withdraw(sender, to, w, cb)
    \/ \E sender \in Accounts, n \in Recipients : TransferOwnership(sender, n)
    \/ \E sender \in Accounts : RenounceOwnership(sender)

Spec == Init /\ [][Next]_vars

\* --------------------------------------------- registry specification
\* the factory after its deployment: no ledger yet
FactoryInit ==
    /\ totalSupplyClear = 0
    /\ remainingForSaleClear = 0
    /\ pricePerTokenWei = 0
    /\ owner = ZeroAddress
    /\ status = NOT_ENTERED
    /\ confidentialBalance = [h \in Holders |-> 0]
    /\ ethBalance = [h \in Holders |-> IF h = Self THEN 0 ELSE InitialWei]
    /\ soldTotal = 0
    /\ collectedWei = 0
    /\ withdrawnWei = 0
    /\ receipt = [op |-> "factory", input |-> NoInput,
                  ok |-> TRUE, err |-> "none", data |-> NoArgs,
                  events |-> <<>>, nested |-> "-"]
    /\ allTokens = <<>>
    /\ tokensByCreator = [a \in Accounts |-> <<>>]
    /\ deployed = 0
    /\ requests = <<>>
    /\ other = NoLedger
    /\ pending = [a \in Accounts |-> Idle]
    /\ market = Mounted

CreateToken(sender, label, totalSupplyClear_, pricePerTokenWei_) ==
    \E r \in {createToken(Registry, State, sender, label, totalSupplyClear_,
                          pricePerTokenWei_)} :
       CommitCreate(Input(sender, totalSupplyClear_, 0, ZeroAddress, pricePerTokenWei_), r)

\* supplies a creator may pass: 0 is refused
Supplies == 0 .. MaxSupply

\* creations, and between them purchases from the ledger deployed last
FactoryNext ==
    \/ \E sender \in Accounts, label \in Labels, n \in Supplies, p \in Prices :
          deployed < MaxTokens /\ CreateToken(sender, label, n, p)
    \/ \E sender \in Accounts, amount \in Amounts : \E value \in Values(sender) :
          deployed > 0 /\ Buy(sender, amount, value, PlainAccept)

FactorySpec == FactoryInit /\ [][FactoryNext]_vars

\* --------------------------------------------- ERC7984 (inherited)
ConfidentialTransfer(from, to) ==
    [name |-> "ConfidentialTransfer", who |-> from, amount |-> 0, a |-> 0, b |-> 0]

\* confidentialTransfer(to, amount) called by a holder: its own tokens move,
\* all of the amount or none of it; the amount moved stays encrypted
ERC7984_confidentialTransfer(s0, sender, to, amount) ==
    IF to = ZeroAddress THEN Revert(s0, "ERC7984InvalidReceiver", <<to>>, "-")
    ELSE Success([s0 EXCEPT
                    !.confidentialBalance = confidentialTransfer(@, sender, to, amount)],
                 <<ConfidentialTransfer(sender, to)>>, "-")

TransferTokens(sender, to, amount) ==
    \E r \in {ERC7984_confidentialTransfer(State, sender, to, amount)} :
       Commit("confidentialTransfer", Input(sender, amount, 0, to, 0), r)

\* purchases, and transfers of purchased tokens between the holders, the
\* ledger's own address among the receivers
TransferNext ==
    \/ \E sender \in Accounts, amount \in Amounts : \E value \in Values(sender) :
          Buy(sender, amount, value, PlainAccept)
    \/ \E sender \in Accounts, to \in Holders \cup {ZeroAddress}, amount \in Amounts :
          TransferTokens(sender, to, amount)

TransferSpec == Init /\ [][TransferNext]_vars

\* ------------------------------------------------ reference scenario
\* "creates a token and allows ETH purchases". Wei are counted here in units
\* of 10^15 wei (0.001 ETH): the scenario deals in whole tokens, multiples of
\* TOKEN_BASE, for which amount * price / TOKEN_BASE is a whole number of
\* units, so that quoteBuy computes in units what the ledger computes in wei.
ScenarioSupply == 10000000
ScenarioPrice == 1
buyAmount == 2000000

\* signers of the fixture
Creator == "a1"
Buyer == "a2"

MyToken == [name |-> "MyToken", symbol |-> "MTK"]

\* whole tokens a caller may ask for, and 0
ScenarioAmounts == {0, TOKEN_BASE, buyAmount}

\* the Creator deploys the ledger once; purchases and withdrawals follow
ScenarioNext ==
    \/ deployed = 0 /\ CreateToken(Creator, MyToken, ScenarioSupply, ScenarioPrice)
    \/ \E sender \in Accounts, amount \in ScenarioAmounts : \E value \in Values(sender) :
          deployed > 0 /\ Buy(sender, amount, value, PlainAccept)
    \/ \E sender \in Accounts, to \in Accounts : \E w \in WeiAmounts :
          deployed > 0 /\ Withdraw(sender, to, w, PlainAccept)

ScenarioSpec == FactoryInit /\ [][ScenarioNext]_vars

\* ------------------------------------------------------------ clients
\* The web front-end (TokenCard, TokenCreate) and the command line tasks.
\* What a user types is a text, a sequence of characters; a client parses
\* it, checks it or not, and sends reads and transactions to the chain.
MAX_UINT64 == 2 ^ UintBits - 1
TOKEN_DECIMALS == 6

DigitChars == {"0", "1", "2", "3", "4", "5", "6", "7", "8", "9"}

digit(c) ==
    CASE c = "0" -> 0 [] c = "1" -> 1 [] c = "2" -> 2 [] c = "3" -> 3
      [] c = "4" -> 4 [] c = "5" -> 5 [] c = "6" -> 6 [] c = "7" -> 7
      [] c = "8" -> 8 [] c = "9" -> 9

allDigits(text) == \A i \in DOMAIN text : text[i] \in DigitChars

RECURSIVE digitsValue(_)
digitsValue(ds) ==
    IF ds = <<>> THEN 0
    ELSE 10 * digitsValue(SubSeq(ds, 1, Len(ds) - 1)) + digit(ds[Len(ds)])

RECURSIVE pow10(_)
pow10(n) == IF n = 0 THEN 1 ELSE 10 * pow10(n - 1)

\* a conversion gives a number or throws
Parsed(v) == [ok |-> TRUE, v |-> v]
Thrown == [ok |-> FALSE, v |-> 0]

\* BigInt(text) of the language: the empty text is 0n, a sign may come
\* first, anything but decimal digits after it is a SyntaxError
BigInt(text) ==
    LET signed == text # <<>> /\ text[1] \in {"-", "+"}
        digits == IF signed THEN Tail(text) ELSE text
    IN  IF text = <<>> THEN Parsed(0)
        ELSE IF digits = <<>> \/ ~allDigits(digits) THEN Thrown
        ELSE Parsed(IF text[1] = "-" THEN 0 - digitsValue(digits)
                    ELSE digitsValue(digits))

\* ethers.parseUnits(text, decimals): -?digits.digits with a digit somewhere;
\* decimals beyond the unit's must be zeros
parseUnits(text, decimals) ==
    LET negative == text # <<>> /\ text[1] = "-"
        body == IF negative THEN Tail(text) ELSE text
        dots == {i \in DOMAIN body : body[i] = "."}
        dot == IF dots = {} THEN Len(body) + 1
               ELSE CHOOSE i \in dots : \A j \in dots : i <= j
        whole == SubSeq(body, 1, dot - 1)
        decimal == IF dot >= Len(body) THEN <<>> ELSE SubSeq(body, dot + 1, Len(body))
        kept == IF Len(decimal) <= decimals THEN decimal ELSE SubSeq(decimal, 1, decimals)
        excess == IF Len(decimal) <= decimals THEN <<>>
                  ELSE SubSeq(decimal, decimals + 1, Len(decimal))
        magnitude == digitsValue(whole) * pow10(decimals)
                     + digitsValue(kept) * pow10(decimals - Len(kept))
    IN  IF ~allDigits(whole) \/ ~allDigits(decimal) \/ Len(whole) + Len(decimal) = 0
        THEN Thrown
        ELSE IF \E i \in DOMAIN excess : excess[i] # "0" THEN Thrown
        ELSE Parsed(IF negative THEN 0 - magnitude ELSE magnitude)

\* the ABI coder of ethers refuses a uint64 argument outside its range, and
\* the call that was to carry it is not sent
encodable(v) == v >= 0 /\ v <= MAX_UINT64

\* one read (eth_call) or transaction a client sent, and the amount or
\* supply it carried
Request(kind, fn, amount) == [kind |-> kind, fn |-> fn, amount |-> amount]

\* a client operation that ended with a message, after sending reqs
Shown(reg, s, message, reqs) ==
    [requests |-> reqs, input |-> NoInput,
     out |-> Revert(s, message, NoArgs, "-"), reg |-> reg]

\* TokenCard.buy: the amount is typed in tokens
TokenCard_buy(reg, s, connected, sender, buyAmountTokens) ==
    IF ~connected THEN Shown(reg, s, "Connect your wallet to buy tokens.", <<>>)
    ELSE LET amountBase == parseUnits(buyAmountTokens, TOKEN_DECIMALS)
         IN  IF ~amountBase.ok THEN Shown(reg, s, "Amount must be a number.", <<>>)
             ELSE IF amountBase.v <= 0 \/ amountBase.v > MAX_UINT64
             THEN Shown(reg, s, "Amount must fit in uint64 and be greater than 0.", <<>>)
             ELSE IF amountBase.v > s.remainingForSaleClear
             THEN Shown(reg, s, "Not enough remaining supply for sale.", <<>>)
             ELSE LET requiredWei == quoteBuy(s, amountBase.v)
                      read == Request("read", "quoteBuy", amountBase.v)
                  IN  IF requiredWei > s.ethBalance[sender]
                      THEN Shown(reg, s, "insufficient funds", <<read>>)
                      ELSE [requests |-> <<read, Request("tx", "buy", amountBase.v)>>,
                            input |-> Input(sender, amountBase.v, requiredWei, ZeroAddress, 0),
                            out |-> buy(s, sender, amountBase.v, requiredWei, PlainAccept),
                            reg |-> reg]

\* TokenCreate.submit: the supply is typed in base units
TokenCreate_submit(reg, s, connected, sender, label, totalSupply, priceWei) ==
    IF ~connected THEN Shown(reg, s, "Connect your wallet to create a token.", <<>>)
    ELSE IF label.name = "" \/ label.symbol = ""
    THEN Shown(reg, s, "Token name and symbol are required.", <<>>)
    ELSE LET supply == BigInt(totalSupply)
         IN  IF ~supply.ok
             THEN Shown(reg, s, "Total supply must be an integer (uint64).", <<>>)
             ELSE IF supply.v <= 0 \/ supply.v > MAX_UINT64
             THEN Shown(reg, s, "Total supply must fit in uint64 and be greater than 0.", <<>>)
             ELSE IF ~priceWei.ok
             THEN Shown(reg, s, "Price must be a valid ETH value (example: 0.0001).", <<>>)
             ELSE LET r == createToken(reg, s, sender, label, supply.v, priceWei.v)
                  IN  [requests |-> <<Request("tx", "createToken", supply.v)>>,
                       input |-> Input(sender, supply.v, 0, ZeroAddress, priceWei.v),
                       out |-> r.out, reg |-> r.reg]

\* task:token:create: a static call first, the transaction if it went through
task_token_create(reg, s, sender, label, supplyText, pricePerTokenWei_) ==
    LET supply == BigInt(supplyText)
    IN  IF ~supply.ok \/ ~pricePerTokenWei_.ok THEN Shown(reg, s, "SyntaxError", <<>>)
        ELSE IF ~encodable(supply.v) THEN Shown(reg, s, "value out-of-bounds", <<>>)
        ELSE LET r == createToken(reg, s, sender, label, supply.v, pricePerTokenWei_.v)
                 read == Request("read", "createToken", supply.v)
             IN  IF ~r.out.ok
                 THEN [requests |-> <<read>>, input |-> NoInput, out |-> r.out, reg |-> reg]
                 ELSE [requests |-> <<read, Request("tx", "createToken", supply.v)>>,
                       input |-> Input(sender, supply.v, 0, ZeroAddress, pricePerTokenWei_.v),
                       out |-> r.out, reg |-> r.reg]

\* task:token:buy: the amount is given in base units
task_token_buy(reg, s, sender, amountText) ==
    LET amount == BigInt(amountText)
    IN  IF ~amount.ok THEN Shown(reg, s, "SyntaxError", <<>>)
        ELSE IF ~encodable(amount.v) THEN Shown(reg, s, "value out-of-bounds", <<>>)
        ELSE LET requiredWei == quoteBuy(s, amount.v)
                 read == Request("read", "quoteBuy", amount.v)
             IN  IF requiredWei > s.ethBalance[sender]
                 THEN Shown(reg, s, "insufficient funds", <<read>>)
                 ELSE [requests |-> <<read, Request("tx", "buy", amount.v)>>,
                       input |-> Input(sender, amount.v, requiredWei, ZeroAddress, 0),
                       out |-> buy(s, sender, amount.v, requiredWei, PlainAccept),
                       reg |-> reg]

\* a client operation on the ledger, and one on the registry
ClientBuy(c) ==
    /\ Settle("buy", c.input, c.out)
    /\ requests' = c.requests
    /\ UNCHANGED other /\ UNCHANGED uiVars

ClientCreate(c) ==
    /\ SettleCreate(c.input, c)
    /\ requests' = c.requests
    /\ UNCHANGED other /\ UNCHANGED uiVars

CardBuy(connected, sender, text) ==
    \E c \in {TokenCard_buy(Registry, State, connected, sender, text)} : ClientBuy(c)

FormCreate(connected, sender, label, text, price) ==
    \E c \in {TokenCreate_submit(Registry, State, connected, sender, label, text, price)} :
       ClientCreate(c)

TaskCreate(sender, label, text, price) ==
    \E c \in {task_token_create(Registry, State, sender, label, text, price)} :
       ClientCreate(c)

TaskBuy(sender, text) ==
    \E c \in {task_token_buy(Registry, State, sender, text)} : ClientBuy(c)

\* texts a user types for an amount in tokens: nothing, zero, amounts within
\* the range, a negative amount, a fraction, one decimal too many, something
\* that is no number, and an amount above the width
TokenTexts ==
    {<<>>, <<"0">>, <<"1">>, <<"-", "1">>, <<"0", ".", "5">>,
     <<"0", ".", "0", "0", "0", "0", "0", "0", "1">>, <<"x">>, <<"5">>}

\* texts for an amount or a supply in base units: those, and two large ones
Texts ==
    TokenTexts \cup {<<"2", "0", "0", "0", "0", "0", "0">>,
                     <<"5", "0", "0", "0", "0", "0", "0">>}

\* name and symbol typed in the form: filled in, or the name left empty
ClientLabels == {MyToken, [name |-> "", symbol |-> "MTK"]}

\* what ethers.parseEther makes of the price typed: one wei per token, or it
\* throws
PriceParses == {Parsed(1), Thrown}

\* one ledger is created, through either client, and then bought from
ClientNext ==
    \/ \E connected \in BOOLEAN, sender \in Accounts, label \in ClientLabels :
          \E text \in Texts, price \in PriceParses :
             deployed = 0 /\ FormCreate(connected, sender, label, text, price)
    \/ \E sender \in Accounts, text \in Texts, price \in PriceParses :
          deployed = 0 /\ TaskCreate(sender, MyToken, text, price)
    \/ \E connected \in BOOLEAN, sender \in Accounts, text \in TokenTexts :
          deployed > 0 /\ CardBuy(connected, sender, text)
    \/ \E sender \in Accounts, text \in Texts :
          deployed > 0 /\ TaskBuy(sender, text)

ClientSpec == FactoryInit /\ [][ClientNext]_vars

\* ---------------------------------------------------------- two ledgers
\* The model follows the ledger the registry deployed last; `other` holds
\* the storage and the wei of the one deployed before it. Both run the same
\* code, each on its own storage; the wei of the accounts are the chain's.
OtherLedger == "ledger0"

\* storage and wei of the ledger of state s, as `other` holds them
Ledger(s) ==
    [totalSupplyClear |-> s.totalSupplyClear,
     remainingForSaleClear |-> s.remainingForSaleClear,
     pricePerTokenWei |-> s.pricePerTokenWei,
     owner |-> s.owner,
     status |-> s.status,
     confidentialBalance |-> s.confidentialBalance,
     eth |-> s.ethBalance[Self]]

\* the state a call on ledger o runs in: the storage and the wei of o, and
\* the wei of the accounts
View(o, eth) ==
    [totalSupplyClear |-> o.totalSupplyClear,
     remainingForSaleClear |-> o.remainingForSaleClear,
     pricePerTokenWei |-> o.pricePerTokenWei,
     owner |-> o.owner,
     status |-> o.status,
     confidentialBalance |-> o.confidentialBalance,
     ethBalance |-> [h \in Holders |-> IF h = Self THEN o.eth ELSE eth[h]]]

\* variant: the wei of the ledger called are booked on the followed one too
accountsWeiMerged(eth, st) == st.ethBalance

\* wei after a call on the other ledger ended in state st: those of the
\* accounts as the call left them, those of the followed ledger as before
accountsWei(eth, st) ==
    [h \in Holders |-> IF h = Self THEN eth[h] ELSE st.ethBalance[h]]

\* a ledger has no receive function: a plain transfer to it fails
NoReceive == [accept |-> FALSE, call |-> NoCall]

\* the outcome of a transaction on the other ledger becomes its new state
OtherCommit(op, input, r) ==
    /\ other' = Ledger(r.st)
    /\ ethBalance' = accountsWei(ethBalance, r.st)
    /\ receipt' = Receipt(op, input, r)
    /\ UNCHANGED <<totalSupplyClear, remainingForSaleClear, pricePerTokenWei, owner,
                   status, confidentialBalance, soldTotal, collectedWei, withdrawnWei,
                   allTokens, tokensByCreator, deployed, requests>>
    /\ UNCHANGED uiVars

OtherBuy(sender, amount, value) ==
    \E r \in {buy(View(other, ethBalance), sender, amount, value, PlainAccept)} :
       OtherCommit("otherBuy", Input(sender, amount, value, ZeroAddress, 0), r)

OtherSetPricePerTokenWei(sender, newPrice) ==
    \E r \in {setPricePerTokenWei(View(other, ethBalance), sender, newPrice)} :
       OtherCommit("otherSetPricePerTokenWei",
                   Input(sender, 0, 0, ZeroAddress, newPrice), r)

\* a creation: the ledger followed so far becomes the other one
PairCreate(sender, totalSupplyClear_, pricePerTokenWei_) ==
    \E r \in {createToken(Registry, State, sender, MyToken, totalSupplyClear_,
                          pricePerTokenWei_)} :
       /\ SettleCreate(Input(sender, totalSupplyClear_, 0, ZeroAddress,
                             pricePerTokenWei_), r)
       /\ other' = IF r.out.ok THEN Ledger(State) ELSE other
       /\ UNCHANGED requests /\ UNCHANGED uiVars

\* a payout of the followed ledger to the address of the other one
WithdrawToLedger(sender, amountWei) ==
    Withdraw(sender, OtherLedger, amountWei, NoReceive)

\* inputs of the pair: a free and a priced ledger of one unit, buys
\* of one unit paid exactly or one wei over, and a receiver of the refund
\* that takes it or calls back to change the price
PairPrices == {0, TOKEN_BASE}
PairSupplies == 0 .. 1
PairAmounts == 0 .. 1
PairValues(s, sender, amount) ==
    {v \in Values(sender) : v - quoteBuy(s, amount) \in 0 .. 1}
PairCallbacks ==
    {PlainAccept,
     [accept |-> TRUE,
      call |-> [op |-> "setPricePerTokenWei", amount |-> 0, value |-> 0,
                to |-> ZeroAddress, price |-> 0]]}

PairNext ==
    \/ \E sender \in Accounts, n \in PairSupplies, p \in PairPrices :
          deployed < 2 /\ PairCreate(sender, n, p)
    \/ \E sender \in Accounts, amount \in PairAmounts :
          \E value \in PairValues(State, sender, amount), cb \in PairCallbacks :
             deployed > 0 /\ Buy(sender, amount, value, cb)
    \/ \E sender \in Accounts, p \in PairPrices :
          deployed > 0 /\ SetPricePerTokenWei(sender, p)
    \/ \E sender \in Accounts : \E w \in WeiAmounts :
          deployed > 0 /\ WithdrawToLedger(sender, w)
    \/ \E sender \in Accounts, amount \in PairAmounts :
          \E value \in PairValues(View(other, ethBalance), sender, amount) :
             deployed > 1 /\ OtherBuy(sender, amount, value)
    \/ \E sender \in Accounts, p \in PairPrices :
          deployed > 1 /\ OtherSetPricePerTokenWei(sender, p)

PairSpec == FactoryInit /\ [][PairNext]_vars

\* ------------------------------------------------- purchase in two steps
\* A client reads quoteBuy(amount) and then sends buy(amount) with that
\* value; other transactions may be ordered between the two. Each account
\* makes one purchase.

\* loadTokens of the user's TokenMarketplace: the ledger's row, with the
\* remaining supply as it is now
LoadRow(a) ==
    /\ pending[a].stage \in {"idle", "row"}
    /\ pending' = [pending EXCEPT ![a] =
                      [Idle EXCEPT !.stage = "row", !.via = "card",
                                   !.seen = remainingForSaleClear]]
    /\ UNCHANGED <<totalSupplyClear, remainingForSaleClear, pricePerTokenWei, owner,
                   status, confidentialBalance, ethBalance, soldTotal, collectedWei,
                   withdrawnWei, receipt, allTokens, tokensByCreator, deployed,
                   requests, other, market>>

\* TokenCard.buy up to the read of the quote: the amount is checked against
\* the width and against the row
cardChecks(row, amountBase) ==
    IF amountBase <= 0 \/ amountBase > MAX_UINT64
    THEN "Amount must fit in uint64 and be greater than 0."
    ELSE IF amountBase > row.seen THEN "Not enough remaining supply for sale."
    ELSE "ok"

CardQuote(a, amountBase) ==
    /\ pending[a].stage = "row"
    /\ pending' = [pending EXCEPT ![a] =
          IF cardChecks(pending[a], amountBase) = "ok"
          THEN [@ EXCEPT !.stage = "quoted", !.amount = amountBase,
                         !.left = remainingForSaleClear,
                         !.requiredWei = quoteBuy(State, amountBase)]
          ELSE [@ EXCEPT !.result = cardChecks(pending[a], amountBase)]]
    /\ UNCHANGED <<totalSupplyClear, remainingForSaleClear, pricePerTokenWei, owner,
                   status, confidentialBalance, ethBalance, soldTotal, collectedWei,
                   withdrawnWei, receipt, allTokens, tokensByCreator, deployed,
                   requests, other, market>>

\* task:token:buy up to the read of the quote: no check
TaskQuote(a, amount) ==
    /\ pending[a].stage = "idle"
    /\ pending' = [pending EXCEPT ![a] =
                      [Idle EXCEPT !.stage = "quoted", !.via = "task",
                                   !.amount = amount,
                                   !.left = remainingForSaleClear,
                                   !.requiredWei = quoteBuy(State, amount)]]
    /\ UNCHANGED <<totalSupplyClear, remainingForSaleClear, pricePerTokenWei, owner,
                   status, confidentialBalance, ethBalance, soldTotal, collectedWei,
                   withdrawnWei, receipt, allTokens, tokensByCreator, deployed,
                   requests, other, market>>

\* variant: the quote is read again as the transaction is sent
submitBuyRequoted(s, a, p) ==
    IF quoteBuy(s, p.amount) > s.ethBalance[a] THEN Revert(s, "insufficient funds", NoArgs, "-")
    ELSE buy(s, a, p.amount, quoteBuy(s, p.amount), PlainAccept)

\* contract.buy(amount, {value: requiredWei}): the wallet sends it if the
\* account can pay the value
submitBuy(s, a, p) ==
    IF p.requiredWei > s.ethBalance[a] THEN Revert(s, "insufficient funds", NoArgs, "-")
    ELSE buy(s, a, p.amount, p.requiredWei, PlainAccept)

SubmitBuy(a) ==
    /\ pending[a].stage = "quoted"
    /\ \E r \in {submitBuy(State, a, pending[a])} :
          /\ Settle("buy", Input(a, pending[a].amount, pending[a].requiredWei,
                                  ZeroAddress, 0), r)
          /\ pending' = [pending EXCEPT ![a] =
                            [@ EXCEPT !.stage = "done", !.left = 0, !.requiredWei = 0,
                                      !.result = IF r.ok THEN "ok" ELSE r.err]]
    /\ UNCHANGED <<requests, other, market>>

BuyFlowNext ==
    \/ \E a \in Accounts : LoadRow(a)
    \/ \E a \in Accounts, amount \in Amounts : CardQuote(a, amount)
    \/ \E a \in Accounts, amount \in Amounts : TaskQuote(a, amount)
    \/ \E a \in Accounts : SubmitBuy(a)
    \/ \E p \in Prices : SetPricePerTokenWei(owner, p)

BuyFlowSpec == Init /\ [][BuyFlowNext]_vars

\* ------------------------------------------------- creation in two steps
\* task:token:create calls createToken statically to learn the address, then
\* sends the transaction; other creations may be ordered between the two.

\* factory.createToken.staticCall(name, symbol, supply, price): the call is
\* executed on the chain's state as it is now and nothing is kept of it but
\* the value returned; a revert ends the task
StaticCreate(a, label, supply, price) ==
    /\ pending[a].stage \in {"idle", "done"}
    /\ \E r \in {createToken(Registry, State, a, label, supply, price)} :
          pending' = [pending EXCEPT ![a] =
             IF r.out.ok
             THEN [Idle EXCEPT !.stage = "predicted", !.via = "task",
                               !.amount = supply, !.requiredWei = price,
                               !.predicted = r.out.data[1]]
             ELSE [Idle EXCEPT !.stage = "done", !.via = "task",
                               !.amount = supply, !.requiredWei = price,
                               !.result = r.out.err]]
    /\ UNCHANGED <<totalSupplyClear, remainingForSaleClear, pricePerTokenWei, owner,
                   status, confidentialBalance, ethBalance, soldTotal, collectedWei,
                   withdrawnWei, receipt, allTokens, tokensByCreator, deployed,
                   requests, other, market>>

\* factory.createToken(name, symbol, supply, price) and tx.wait(); the task
\* then prints the address it learned from the static call
SubmitCreate(a, label) ==
    /\ pending[a].stage = "predicted"
    /\ \E r \in {createToken(Registry, State, a, label, pending[a].amount,
                               pending[a].requiredWei)} :
          /\ SettleCreate(Input(a, pending[a].amount, 0, ZeroAddress,
                                pending[a].requiredWei), r)
          /\ pending' = [pending EXCEPT ![a] =
                            [@ EXCEPT !.stage = "done",
                                      !.result = IF r.out.ok THEN "ok" ELSE r.out.err]]
    /\ UNCHANGED <<requests, other, market>>

CreateFlowNext ==
    \/ \E a \in Accounts, n \in Supplies, p \in Prices :
          deployed < MaxTokens /\ StaticCreate(a, MyToken, n, p)
    \/ \E a \in Accounts : SubmitCreate(a, MyToken)

CreateFlowSpec == FactoryInit /\ [][CreateFlowNext]_vars

\* ------------------------------------------------------ TokenMarketplace
\* loadTokens calls the component starts in one behaviour
MaxLoads == 3

\* a call of loadTokens that is waiting for the chain
Waiting == [state |-> "waiting", rows |-> <<>>, mySet |-> {}, message |-> "null"]

\* Array.from(new Set(list)): the first occurrence of each element is kept
RECURSIVE uniqueFrom(_, _, _)
uniqueFrom(list, i, acc) ==
    IF i > Len(list) THEN acc
    ELSE uniqueFrom(list, i + 1,
                    IF \E j \in 1 .. Len(acc) : acc[j] = list[i] THEN acc
                    ELSE Append(acc, list[i]))

unique(list) == uniqueFrom(list, 1, <<>>)

\* rows.sort(mine first): the sort is stable
sortMineFirst(rows, mySet) ==
    SelectSeq(rows, LAMBDA t : t \in mySet) \o SelectSeq(rows, LAMBDA t : t \notin mySet)

\* the reads of one run, answered by the registry as it is when they run; a
\* row is written as the address of its ledger
fetched(reg, address) ==
    LET all == getAllTokens(reg)
        myTokens == IF address # "none" THEN getTokensByCreator(reg, address) ELSE <<>>
    IN  [state |-> "rows", rows |-> unique(all \o myTokens),
         mySet |-> {myTokens[i] : i \in 1 .. Len(myTokens)}, message |-> "null"]

\* a read that failed
thrown == [state |-> "error", rows |-> <<>>, mySet |-> {}, message |-> "Failed to load tokens."]

\* loadTokens up to its first await
loadTokens(m) ==
    IF ~m.publicClient THEN [m EXCEPT !.error = "Public client not available."]
    ELSE IF m.factoryAddress = "null"
    THEN [m EXCEPT !.error = "Enter a valid factory address."]
    ELSE [m EXCEPT !.error = "null",
                   !.loadIdRef = @ + 1,
                   !.isLoading = TRUE,
                   !.runs = @ \cup {[loadId |-> m.loadIdRef + 1, address |-> m.address,
                                     got |-> Waiting]}]

\* variant: the flag is lowered by whichever run finishes
finallyAny(m, run) == [m EXCEPT !.isLoading = FALSE]

\* finally { if (loadId === loadIdRef.current) setIsLoading(false); }
finally(m, run) ==
    IF run.loadId = m.loadIdRef THEN [m EXCEPT !.isLoading = FALSE] ELSE m

\* variant: a run writes its rows without looking at the counter
settleAny(m, run) ==
    IF run.got.state = "rows"
    THEN [m EXCEPT !.myTokenAddresses = run.got.mySet,
                   !.tokens = sortMineFirst(run.got.rows, run.got.mySet)]
    ELSE IF run.loadId # m.loadIdRef THEN m
    ELSE [m EXCEPT !.error = run.got.message]

\* loadTokens after its reads: the rows are written, or the error is, if no
\* later run has taken a number
settle(m, run) ==
    IF run.loadId # m.loadIdRef THEN m
    ELSE IF run.got.state = "rows"
    THEN [m EXCEPT !.myTokenAddresses = run.got.mySet,
                   !.tokens = sortMineFirst(run.got.rows, run.got.mySet)]
    ELSE [m EXCEPT !.error = run.got.message]

ChainUnchanged ==
    UNCHANGED <<totalSupplyClear, remainingForSaleClear, pricePerTokenWei, owner,
                status, confidentialBalance, ethBalance, soldTotal, collectedWei,
                withdrawnWei, receipt, allTokens, tokensByCreator, deployed,
                requests, other, pending>>

\* the Refresh button, enabled while no load is shown as running
Refresh ==
    /\ ~market.isLoading
    /\ market.loadIdRef < MaxLoads
    /\ market' = loadTokens(market)
    /\ ChainUnchanged

\* onRefresh of a TokenCard, called when a purchase made from the card is done
CardRefresh ==
    /\ Len(market.tokens) > 0
    /\ market.loadIdRef < MaxLoads
    /\ market' = loadTokens(market)
    /\ ChainUnchanged

\* the factory address field is edited: the effect calls loadTokens if the
\* text is an address
SetFactoryAddressInput(value) ==
    /\ value # market.factoryAddress
    /\ market.loadIdRef < MaxLoads
    /\ market' = IF value = "null" THEN [market EXCEPT !.factoryAddress = value]
                 ELSE loadTokens([market EXCEPT !.factoryAddress = value])
    /\ ChainUnchanged

\* the wallet connects or disconnects: the effect calls loadTokens if the
\* factory address is valid
SetAccount(address) ==
    /\ address # market.address
    /\ market.loadIdRef < MaxLoads
    /\ market' = IF market.factoryAddress = "null" THEN [market EXCEPT !.address = address]
                 ELSE loadTokens([market EXCEPT !.address = address])
    /\ ChainUnchanged

\* the chain answers the reads of a run, or a read fails
Answer(run, got) ==
    /\ run \in market.runs
    /\ run.got = Waiting
    /\ market' = [market EXCEPT !.runs = (@ \ {run}) \cup {[run EXCEPT !.got = got]}]
    /\ ChainUnchanged

\* the run goes on after its awaits, to its end
Finish(run) ==
    /\ run \in market.runs
    /\ run.got # Waiting
    /\ market' = [finally(settle(market, run), run) EXCEPT !.runs = @ \ {run}]
    /\ ChainUnchanged

\* somebody creates a token; two creations are followed
LoadCreate(sender) ==
    /\ deployed < 2
    /\ \E r \in {createToken(Registry, State, sender, MyToken, 1, TOKEN_BASE)} :
          SettleCreate(Input(sender, 1, 0, ZeroAddress, TOKEN_BASE), r)
    /\ UNCHANGED <<requests, other, pending, market>>

LoadNext ==
    \/ Refresh
    \/ CardRefresh
    \/ \E value \in {"factory", "null"} : SetFactoryAddressInput(value)
    \/ \E address \in {"none", Creator} : SetAccount(address)
    \/ \E run \in market.runs : \E got \in {fetched(Registry, run.address), thrown} :
          Answer(run, got)
    \/ \E run \in market.runs : Finish(run)
    \/ \E sender \in Accounts : LoadCreate(sender)

LoadSpec == FactoryInit /\ [][LoadNext]_vars

\* ------------------------------------------------ quote specification
\* quoteBuy called as a read, for a wide range of amounts and prices
QuoteBuy(sender, amount) ==
    \E r \in {Return(State, quoteBuy(State, amount))} :
       Commit("quoteBuy", Input(sender, amount, 0, ZeroAddress, 0), r)

QuoteNext ==
    \/ \E p \in QuotePrices : SetPricePerTokenWei(owner, p)
    \/ \E amount \in QuoteAmounts : QuoteBuy(owner, amount)

QuoteSpec == Init /\ [][QuoteNext]_vars

\* ------------------------------------------------------------ properties
RECURSIVE SumOver(_, _)
SumOver(f, S) ==
    IF S = {} THEN 0
    ELSE LET x == CHOOSE y \in S : TRUE IN f[x] + SumOver(f, S \ {x})

BuySucceeded == receipt.op = "buy" /\ receipt.ok

\* the purchase a successful buy reported: its TokenPurchased event
Purchase == receipt.events[Len(receipt.events)]

\* C1: the remaining supply always lies between 0 and the total supply; from
\* every reachable state a successful buy(amount) lowers it by exactly amount
\* and a failed one leaves it; no step other than a successful buy changes it.
C1_RemainingSupply ==
    /\ [](/\ 0 <= remainingForSaleClear
          /\ remainingForSaleClear <= totalSupplyClear
          /\ \A sender \in Accounts, amount \in Amounts : \A value \in Values(sender) :
                \A cb \in BuyCallbacks(amount, value) :
                   LET r == buy(State, sender, amount, value, cb)
                   IN  r.st.remainingForSaleClear =
                          IF r.ok THEN remainingForSaleClear - amount
                          ELSE remainingForSaleClear)
    /\ [][remainingForSaleClear' # remainingForSaleClear
            => receipt'.op = "buy" /\ receipt'.ok]_vars

C1_Witness ==
    /\ BuySucceeded
    /\ Purchase.amount > 0
    /\ remainingForSaleClear > 0
    /\ remainingForSaleClear = totalSupplyClear - Purchase.amount

\* C2: the supply sold so far, totalSupplyClear - remainingForSaleClear, is
\* the sum of the amounts of the successful buys, and so is the sum of the
\* buyers' clear balances.
C2_TokenConservation ==
    /\ totalSupplyClear - remainingForSaleClear = soldTotal
    /\ SumOver(confidentialBalance, Accounts) = soldTotal

C2_Witness ==
    /\ soldTotal = totalSupplyClear
    /\ \A a \in Accounts : confidentialBalance[a] > 0

\* C3: the ledger's native balance is the sum of requiredWei over the
\* successful buys minus the sum of amountWei over the successful withdraws.
C3_ValueConservation ==
    ethBalance[Self] = collectedWei - withdrawnWei

C3_Witness ==
    /\ receipt.op = "withdraw" /\ receipt.ok
    /\ withdrawnWei > 0
    /\ ethBalance[Self] > 0
    /\ collectedWei > withdrawnWei

\* C4: quoteBuy is exact ceiling division: the quote times TOKEN_BASE covers
\* amount * pricePerTokenWei, one wei less would not, and quoteBuy(0) = 0.
C4_QuoteIsCeiling ==
    receipt.op = "quoteBuy" =>
        LET amount == receipt.input.amount
            quote == receipt.data[1]
            exact == amount * pricePerTokenWei
        IN  /\ quote * TOKEN_BASE >= exact
            /\ (quote - 1) * TOKEN_BASE < exact
            /\ (amount = 0 => quote = 0)

C4_Witness ==
    /\ receipt.op = "quoteBuy"
    /\ receipt.data[1] > 1
    /\ (receipt.input.amount * pricePerTokenWei) % TOKEN_BASE # 0

\* C5 as stated: every buy that pays less than the quote fails with
\* InsufficientPayment(requiredWei, paidWei) and changes no supply or balance.
C5_Original ==
    [][\A sender \in Accounts, amount \in Amounts : \A value \in Values(sender) :
          (value < quoteBuy(State, amount) /\ Buy(sender, amount, value, PlainAccept))
          => /\ receipt'.err = "InsufficientPayment"
             /\ receipt'.data = <<quoteBuy(State, amount), value>>
             /\ UNCHANGED <<remainingForSaleClear, confidentialBalance, ethBalance>>]_vars

\* C5, amended: a buy that pays less than the quote always fails and changes
\* nothing; it fails with InsufficientPayment(requiredWei, paidWei) when the
\* amount is within the remaining supply, and with SoldOut when it is not.
C5_NoUnderpayment ==
    \A sender \in Accounts, amount \in Amounts : \A value \in Values(sender) :
        value < quoteBuy(State, amount) =>
            LET r == buy(State, sender, amount, value, PlainAccept)
            IN  /\ ~r.ok
                /\ r.st = State
                /\ r.events = <<>>
                /\ IF amount <= remainingForSaleClear
                   THEN /\ r.err = "InsufficientPayment"
                        /\ r.data = <<quoteBuy(State, amount), value>>
                   ELSE r.err = "SoldOut"

C5_Witness ==
    /\ receipt.op = "buy"
    /\ receipt.err = "InsufficientPayment"
    /\ receipt.data[2] > 0
    /\ receipt.data[2] < receipt.data[1]

\* C6 as stated, even for amounts the remaining supply covers: a buy paying
\* more than the quote succeeds, the ledger keeps the quote and the caller
\* gets the rest back.
C6_Original ==
    [][\A sender \in Accounts, amount \in 1 .. remainingForSaleClear :
          \A value \in Values(sender), cb \in Callbacks :
             (value > quoteBuy(State, amount) /\ Buy(sender, amount, value, cb))
             => /\ receipt'.ok
                /\ ethBalance'[sender] = ethBalance[sender] - quoteBuy(State, amount)
                /\ ethBalance'[Self] = ethBalance[Self] + quoteBuy(State, amount)]_vars

\* C6, amended: a buy of an amount within the remaining supply that pays
\* more than the quote succeeds when the caller accepts the refund, and then
\* costs the caller exactly the quote, which the ledger keeps; when the
\* caller refuses the refund the buy fails and costs nothing.
C6_NoOvercharge ==
    \A sender \in Accounts, amount \in 1 .. remainingForSaleClear :
        \A value \in Values(sender), cb \in Callbacks :
            value > quoteBuy(State, amount) =>
                LET r == buy(State, sender, amount, value, cb)
                    quote == quoteBuy(State, amount)
                IN  IF cb.accept
                    THEN /\ r.ok
                         /\ r.st.ethBalance[sender] = ethBalance[sender] - quote
                         /\ r.st.ethBalance[Self] = ethBalance[Self] + quote
                    ELSE /\ ~r.ok
                         /\ r.st.ethBalance = ethBalance

C6_Witness ==
    /\ BuySucceeded
    /\ Purchase.a > 0
    /\ Purchase.b > Purchase.a
    /\ collectedWei = Purchase.a
    /\ ethBalance[Self] = Purchase.a
    /\ ethBalance[Purchase.who] = InitialWei - Purchase.a

\* C7 as stated: a buy of all that remains with a sufficient payment
\* succeeds and leaves nothing; a sold-out ledger stays sold out and fails
\* every buy of a positive amount with SoldOut.
C7_Original ==
    [][/\ \A sender \in Accounts : \A value \in Values(sender), cb \in Callbacks :
             (/\ remainingForSaleClear > 0
              /\ value >= quoteBuy(State, remainingForSaleClear)
              /\ Buy(sender, remainingForSaleClear, value, cb))
             => receipt'.ok /\ remainingForSaleClear' = 0
       /\ remainingForSaleClear = 0 => remainingForSaleClear' = 0
       /\ \A sender \in Accounts, amount \in Amounts \ {0} : \A value \in Values(sender) :
             (remainingForSaleClear = 0 /\ Buy(sender, amount, value, PlainAccept))
             => receipt'.err = "SoldOut"]_vars

\* C7, amended: a buy of all that remains succeeds and leaves nothing when it
\* pays the quote exactly, or pays more and the caller accepts the refund; a
\* sold-out ledger stays sold out and fails every buy of a positive amount
\* with SoldOut.
C7_SoldOutBoundary ==
    /\ [](/\ \A sender \in Accounts : \A value \in Values(sender), cb \in Callbacks :
                (/\ remainingForSaleClear > 0
                 /\ value >= quoteBuy(State, remainingForSaleClear)
                 /\ (value = quoteBuy(State, remainingForSaleClear) \/ cb.accept))
                => LET r == buy(State, sender, remainingForSaleClear, value, cb)
                   IN  r.ok /\ r.st.remainingForSaleClear = 0
          /\ remainingForSaleClear = 0 =>
                \A sender \in Accounts, amount \in Amounts \ {0} :
                   \A value \in Values(sender) :
                      buy(State, sender, amount, value, PlainAccept).err = "SoldOut")
    /\ [][remainingForSaleClear = 0 => remainingForSaleClear' = 0]_vars

C7_Witness ==
    /\ remainingForSaleClear = 0
    /\ soldTotal = totalSupplyClear
    /\ receipt.op = "buy"
    /\ receipt.err = "SoldOut"

\* C8: buy checks in a fixed order: a zero amount fails with InvalidAmount
\* whatever the supply and the payment; otherwise an amount above the
\* remaining supply fails with SoldOut whatever the payment (so
\* buy(totalSupplyClear + 1) always fails); only otherwise is the payment
\* compared, and InsufficientPayment raised exactly when it is short.
C8_CheckOrder ==
    \A sender \in Accounts, amount \in Amounts : \A value \in Values(sender) :
        \A cb \in BuyCallbacks(amount, value) :
            LET r == buy(State, sender, amount, value, cb)
            IN  /\ amount = 0 => r.err = "InvalidAmount"
                /\ (amount # 0 /\ amount > remainingForSaleClear) => r.err = "SoldOut"
                /\ amount = totalSupplyClear + 1 => ~r.ok
                /\ (amount # 0 /\ amount <= remainingForSaleClear) =>
                      (r.err = "InsufficientPayment" <=> value < quoteBuy(State, amount))

C8_Witness ==
    /\ receipt.op = "buy"
    /\ receipt.err = "SoldOut"
    /\ remainingForSaleClear > 0
    /\ pricePerTokenWei > 0
    /\ \E a \in Accounts : ethBalance[a] < quoteBuy(State, remainingForSaleClear + 1)

\* C9: setPricePerTokenWei and withdraw called by anyone but the owner fail
\* with Unauthorized and change nothing; called by the owner they succeed:
\* the price becomes the new price, and a withdrawal of 1 .. balance wei to a
\* non-zero recipient that accepts it moves that many wei to the recipient.
C9_OwnerGating ==
    \A sender \in Accounts :
        /\ \A p \in Prices :
              LET r == setPricePerTokenWei(State, sender, p)
              IN  IF sender # owner
                  THEN r.err = Unauthorized /\ r.st = State /\ r.events = <<>>
                  ELSE /\ r.ok
                       /\ r.st = [State EXCEPT !.pricePerTokenWei = p]
                       /\ r.events = <<PriceUpdated(pricePerTokenWei, p)>>
        /\ \A to \in Recipients, w \in WeiAmounts : \A cb \in Callbacks :
              LET r == withdraw(State, sender, to, w, cb)
              IN  IF sender # owner
                  THEN r.err = Unauthorized /\ r.st = State /\ r.events = <<>>
                  ELSE (to # ZeroAddress /\ w >= 1 /\ w <= ethBalance[Self] /\ cb.accept)
                       => /\ r.ok
                          /\ r.st.ethBalance[Self] = ethBalance[Self] - w
                          /\ r.st.ethBalance[to] = ethBalance[to] + w
                          /\ r.st.remainingForSaleClear = remainingForSaleClear

C9_Witness ==
    /\ receipt.op = "withdraw"
    /\ receipt.err = Unauthorized
    /\ ethBalance[Self] > 0
    /\ owner # ZeroAddress

\* C10: when the refund transfer of a buy fails the whole buy fails with
\* RefundFailed: supply, token balances, wei balances and every other field
\* are as before the call and no event is emitted.
C10_RefundAtomicity ==
    \A sender \in Accounts, amount \in 1 .. remainingForSaleClear :
        \A value \in Values(sender), cb \in Callbacks :
            (value > quoteBuy(State, amount) /\ ~cb.accept) =>
                LET r == buy(State, sender, amount, value, cb)
                IN  /\ ~r.ok
                    /\ r.err = "RefundFailed"
                    /\ r.st = State
                    /\ r.events = <<>>

C10_Witness ==
    /\ receipt.op = "buy"
    /\ receipt.err = "RefundFailed"
    /\ receipt.events = <<>>
    /\ remainingForSaleClear > 0

\* C11: while a buy or a withdraw runs its value transfer, a buy or a
\* withdraw made by the receiver on the same ledger is rejected (by the
\* reentrancy guard, or as unauthorized before the guard is reached), and
\* the outer call ends exactly as it does when the receiver calls nothing.
NestedGuarded == {c \in NestedCalls : c.op \in {"buy", "withdraw"}}

Rejected(s, sender, c) ==
    IF c.op = "withdraw" /\ sender # s.owner THEN Unauthorized
    ELSE IF c.op = "buy" /\ c.value > s.ethBalance[sender] THEN "nocall"
    ELSE Reentrant

C11_ReentrancyExclusion ==
    /\ \A sender \in Accounts, amount \in 1 .. remainingForSaleClear :
          \A value \in Values(sender), c \in NestedGuarded :
             value > quoteBuy(State, amount) =>
                LET r == buy(State, sender, amount, value, [accept |-> TRUE, call |-> c])
                    plain == buy(State, sender, amount, value, PlainAccept)
                IN  /\ r.ok
                    /\ r.nested = Rejected(r.st, sender, c)
                    /\ r.st = plain.st
                    /\ r.events = plain.events
    /\ \A to \in Accounts, w \in 1 .. ethBalance[Self], c \in NestedGuarded :
          owner # ZeroAddress =>
             LET r == withdraw(State, owner, to, w, [accept |-> TRUE, call |-> c])
                 plain == withdraw(State, owner, to, w, PlainAccept)
             IN  /\ r.ok
                 /\ r.nested = Rejected(r.st, to, c)
                 /\ r.st = plain.st
                 /\ r.events = plain.events

C11_Witness ==
    /\ BuySucceeded
    /\ receipt.nested = Reentrant
    /\ remainingForSaleClear > 0
    /\ ethBalance[Self] > 0

\* C12 as stated: no mutating call (buy, withdraw, setPricePerTokenWei) made
\* by the receiver of a refund or of a payout takes effect while the outer
\* call is inside its value transfer: every such nested call is rejected.
C12_NoNestedMutation ==
    receipt.op \in {"buy", "withdraw"} => receipt.nested # "ok"

\* C13: every failing call leaves the complete state unchanged: a failing
\* buy, withdraw, setPricePerTokenWei (or ownership call) on the ledger and a
\* failing createToken on the registry end in the state they started from,
\* lists included, with no event; and a step that failed changed no variable
\* but the receipt.
Untouched(r) == ~r.ok => (r.st = State /\ r.events = <<>>)

C13_AllOrNothing ==
    /\ [](/\ \A sender \in Accounts, amount \in Amounts : \A value \in Values(sender) :
                \A cb \in BuyCallbacks(amount, value) :
                   Untouched(buy(State, sender, amount, value, cb))
          /\ \A sender \in Accounts, to \in Recipients : \A w \in WeiAmounts :
                \A cb \in WithdrawCallbacks(sender, to, w) :
                   Untouched(withdraw(State, sender, to, w, cb))
          /\ \A sender \in Accounts, p \in Prices :
                Untouched(setPricePerTokenWei(State, sender, p))
          /\ \A sender \in Accounts, n \in Recipients :
                /\ Untouched(transferOwnership(State, sender, n))
                /\ Untouched(renounceOwnership(State, sender))
          /\ \A sender \in Accounts, label \in Labels, n \in Supplies, p \in Prices :
                LET r == createToken(Registry, State, sender, label, n, p)
                IN  /\ Untouched(r.out)
                    /\ ~r.out.ok => r.reg = Registry)
    /\ [][~receipt'.ok =>
            UNCHANGED <<totalSupplyClear, remainingForSaleClear, pricePerTokenWei,
                        owner, status, confidentialBalance, ethBalance, soldTotal,
                        collectedWei, withdrawnWei, allTokens, tokensByCreator,
                        deployed>>]_vars

C13_Witness ==
    /\ receipt.op = "createToken"
    /\ ~receipt.ok
    /\ soldTotal > 0
    /\ Len(allTokens) > 0

\* C14: a withdraw by the owner to the zero address, of zero wei, or of more
\* wei than the ledger holds fails with InvalidWithdraw and changes nothing.
C14_InvalidWithdraw ==
    \A to \in Recipients, w \in WeiAmounts, cb \in Callbacks :
        (owner # ZeroAddress /\ (to = ZeroAddress \/ w = 0 \/ w > ethBalance[Self])) =>
            LET r == withdraw(State, owner, to, w, cb)
            IN  /\ ~r.ok
                /\ r.err = "InvalidWithdraw"
                /\ r.st = State
                /\ r.events = <<>>

C14_Witness ==
    /\ receipt.op = "withdraw"
    /\ receipt.err = "InvalidWithdraw"
    /\ withdrawnWei > 0
    /\ ethBalance[Self] = 0

\* number of events of one kind in a transaction's log
RECURSIVE EventCountFrom(_, _, _)
EventCountFrom(evs, nm, i) ==
    IF i > Len(evs) THEN 0
    ELSE (IF evs[i].name = nm THEN 1 ELSE 0) + EventCountFrom(evs, nm, i + 1)

EventCount(evs, nm) == EventCountFrom(evs, nm, 1)

\* C15 as stated: a successful withdraw(to, amountWei) by the owner moves
\* exactly amountWei from the ledger to the recipient, emits one Withdrawn
\* event {to, amountWei} and leaves the remaining supply, the price and the
\* token balances as they were; any amount from 1 wei to the whole balance
\* can be withdrawn, the whole balance leaving 0; when the transfer to the
\* recipient fails the call fails and changes nothing.
C15_WithdrawEffect ==
    \A to \in Accounts, w \in 1 .. ethBalance[Self], cb \in Callbacks :
        owner # ZeroAddress =>
            LET r == withdraw(State, owner, to, w, cb)
            IN  IF cb.accept
                THEN /\ r.ok
                     /\ r.st.ethBalance = sendValue(ethBalance, Self, to, w)
                     /\ (w = ethBalance[Self] => r.st.ethBalance[Self] = 0)
                     /\ EventCount(r.events, "Withdrawn") = 1
                     /\ r.events[Len(r.events)] = Withdrawn(to, w)
                     /\ r.st.remainingForSaleClear = remainingForSaleClear
                     /\ r.st.pricePerTokenWei = pricePerTokenWei
                     /\ r.st.confidentialBalance = confidentialBalance
                ELSE /\ ~r.ok
                     /\ r.st = State
                     /\ r.events = <<>>

\* C16 as stated: a value transfer that does not succeed, the refund of a buy
\* or the payout of a withdraw, is reported with an error that is none of
\* InvalidAmount, SoldOut, InsufficientPayment, InvalidWithdraw, Unauthorized.
OtherKinds ==
    {"InvalidAmount", "SoldOut", "InsufficientPayment", "InvalidWithdraw", Unauthorized}

C16_TransferFailureDistinct ==
    /\ \A sender \in Accounts, amount \in 1 .. remainingForSaleClear :
          \A value \in Values(sender) :
             value > quoteBuy(State, amount) =>
                LET r == buy(State, sender, amount, value,
                             [accept |-> FALSE, call |-> NoCall])
                IN  ~r.ok /\ r.err \notin OtherKinds
    /\ \A to \in Accounts, w \in 1 .. ethBalance[Self] :
          owner # ZeroAddress =>
             LET r == withdraw(State, owner, to, w, [accept |-> FALSE, call |-> NoCall])
             IN  ~r.ok /\ r.err \notin OtherKinds

\* C17 as stated: in every reachable state the ledger has an owner, an
\* account able to call setPricePerTokenWei and withdraw.
C17_OwnerAlwaysExists ==
    /\ owner # ZeroAddress
    /\ \E a \in Accounts : /\ a = owner
                           /\ \A p \in Prices : setPricePerTokenWei(State, a, p).ok

\* C18: every address in a creator's list appears exactly once in the list
\* of all tokens.
Occurrences(list, x) == Cardinality({i \in 1 .. Len(list) : list[i] = x})

C18_RegistryInvariant ==
    \A c \in Accounts :
        \A i \in 1 .. Len(getTokensByCreator(Registry, c)) :
            Occurrences(getAllTokens(Registry), getTokensByCreator(Registry, c)[i]) = 1

C18_Witness ==
    /\ allTokensLength(Registry) = 2
    /\ \A c \in Accounts : Len(getTokensByCreator(Registry, c)) = 1

\* C19: the lists only grow, at the end: a successful createToken appends
\* the new address to the list of all tokens and to its caller's list, leaves
\* the other creators' lists alone and emits one TokenCreated event {creator,
\* token, name, symbol, totalSupplyClear, pricePerTokenWei}; no other step
\* changes a list, so every earlier result of getAllTokens and of
\* getTokensByCreator is a prefix of every later one; allTokensLength is the
\* number of successful creations.
IsPrefix(short, long) ==
    /\ Len(short) <= Len(long)
    /\ \A i \in 1 .. Len(short) : short[i] = long[i]

C19_AppendOnly ==
    /\ [](allTokensLength(Registry) = deployed)
    /\ [][/\ IsPrefix(allTokens, allTokens')
           /\ \A c \in Accounts : IsPrefix(tokensByCreator[c], tokensByCreator'[c])
           /\ IF receipt'.op = "createToken" /\ receipt'.ok
              THEN LET token == receipt'.data[1]
                       creator == receipt'.input.sender
                       ev == receipt'.events[Len(receipt'.events)]
                   IN  /\ allTokens' = Append(allTokens, token)
                       /\ tokensByCreator' =
                             [tokensByCreator EXCEPT ![creator] = Append(@, token)]
                       /\ deployed' = deployed + 1
                       /\ EventCount(receipt'.events, "TokenCreated") = 1
                       /\ ev.name = "TokenCreated"
                       /\ ev.who = creator /\ ev.token = token
                       /\ [name |-> ev.tokenName, symbol |-> ev.symbol] \in Labels
                       /\ ev.amount = totalSupplyClear' /\ ev.amount = receipt'.input.amount
                       /\ ev.a = pricePerTokenWei' /\ ev.a = receipt'.input.price
              ELSE UNCHANGED <<allTokens, tokensByCreator, deployed>>]_vars

C19_Witness ==
    /\ receipt.op = "createToken" /\ receipt.ok
    /\ allTokens = <<TokenAddress(1), TokenAddress(2)>>
    /\ tokensByCreator[receipt.input.sender] = <<TokenAddress(2)>>

\* C20: a ledger created through the registry starts with the caller of
\* createToken as its owner (not the registry), the given supply as total and
\* remaining supply, the given price, the whole supply as the ledger's own
\* token balance and a zero token balance for every account.
C20_CreatedLedger ==
    /\ \A sender \in Accounts, label \in Labels, n \in Supplies \ {0}, p \in Prices :
          LET r == createToken(Registry, State, sender, label, n, p).out
          IN  /\ r.ok
              /\ r.st.owner = sender /\ r.st.owner # Factory
              /\ r.st.totalSupplyClear = n
              /\ r.st.remainingForSaleClear = n
              /\ r.st.pricePerTokenWei = p
              /\ r.st.confidentialBalance[Self] = n
              /\ \A a \in Accounts : r.st.confidentialBalance[a] = 0
    /\ (receipt.op = "createToken" /\ receipt.ok) =>
          /\ owner = receipt.input.sender
          /\ totalSupplyClear = receipt.input.amount
          /\ remainingForSaleClear = receipt.input.amount
          /\ pricePerTokenWei = receipt.input.price
          /\ confidentialBalance = [h \in Holders |-> IF h = Self THEN totalSupplyClear ELSE 0]

C20_Witness ==
    /\ receipt.op = "createToken" /\ receipt.ok
    /\ deployed = 2
    /\ totalSupplyClear = MaxSupply
    /\ pricePerTokenWei > 0
    /\ \E a \in Accounts : ethBalance[a] < InitialWei

\* C21: the construction of a ledger with a total supply of 0 fails with
\* InvalidAmount, and so does createToken(.., 0, ..): the error is the
\* constructor's, no address is added to either list and no event is
\* emitted; no creation fails for any other reason.
C21_ZeroSupplyRefused ==
    /\ \A sender \in Accounts, label \in Labels, p \in Prices :
          LET made == constructor(State, 0, p, sender)
              r == createToken(Registry, State, sender, label, 0, p)
          IN  /\ ~made.ok /\ made.err = "InvalidAmount"
              /\ ~r.out.ok /\ r.out.err = "InvalidAmount"
              /\ r.out.events = <<>>
              /\ getAllTokens(r.reg) = getAllTokens(Registry)
              /\ \A c \in Accounts :
                    getTokensByCreator(r.reg, c) = getTokensByCreator(Registry, c)
    /\ (receipt.op = "createToken" /\ ~receipt.ok) =>
          (receipt.err = "InvalidAmount" /\ receipt.events = <<>>)

C21_Witness ==
    /\ receipt.op = "createToken"
    /\ receipt.err = "InvalidAmount"
    /\ allTokensLength(Registry) = 1
    /\ remainingForSaleClear < totalSupplyClear

\* C22: setPricePerTokenWei(newPrice) by the owner succeeds in every state,
\* sold out or not, for a price of 0 and for the price already in force: the
\* price becomes newPrice, one PriceUpdated event carries the previous and
\* the new price, and the remaining supply, the wei balances, the owner, the
\* guard and the token balances stay as they were.
C22_SetPrice ==
    \A p \in Prices :
        owner # ZeroAddress =>
            LET r == setPricePerTokenWei(State, owner, p)
            IN  /\ r.ok
                /\ r.st.pricePerTokenWei = p
                /\ r.events = <<PriceUpdated(pricePerTokenWei, p)>>
                /\ r.st.remainingForSaleClear = remainingForSaleClear
                /\ r.st.ethBalance = ethBalance
                /\ r.st.owner = owner
                /\ r.st.status = status
                /\ r.st.confidentialBalance = confidentialBalance
                /\ r.st.totalSupplyClear = totalSupplyClear

C22_Witness ==
    /\ receipt.op = "setPricePerTokenWei" /\ receipt.ok
    /\ remainingForSaleClear = 0
    /\ receipt.events = <<PriceUpdated(0, 0)>>
    /\ ethBalance[Self] > 0

\* C24: as long as something remains for sale, a buy of 1 .. remaining units
\* that pays at least the quote, by a caller that accepts the refund, is
\* accepted, whatever buys, price changes, withdrawals and ownership changes
\* came before; the remaining supply never grows and never leaves
\* 0 .. totalSupplyClear.
C24_Availability ==
    /\ [](/\ \A sender \in Accounts, amount \in 1 .. remainingForSaleClear :
                \A value \in Values(sender), cb \in Callbacks :
                   (value >= quoteBuy(State, amount) /\ cb.accept) =>
                      LET r == buy(State, sender, amount, value, cb)
                      IN  /\ r.ok
                          /\ r.st.confidentialBalance[sender] =
                                confidentialBalance[sender] + amount
          /\ remainingForSaleClear \in 0 .. totalSupplyClear)
    /\ [][remainingForSaleClear' <= remainingForSaleClear]_vars

C24_Witness ==
    /\ BuySucceeded
    /\ withdrawnWei > 0
    /\ Purchase.b = Purchase.a
    /\ collectedWei > Purchase.a
    /\ pricePerTokenWei # TOKEN_BASE

C27_PurchaseEvents ==
    /\ [](\A sender \in Accounts, amount \in Amounts : \A value \in Values(sender) :
             \A cb \in BuyCallbacks(amount, value) :
                LET r == buy(State, sender, amount, value, cb)
                IN  IF r.ok
                    THEN /\ EventCount(r.events, "TokenPurchased") = 1
                         /\ LET ev == r.events[Len(r.events)]
                            IN  /\ ev.name = "TokenPurchased"
                                /\ ev.who = sender
                                /\ ev.amount = amount
                                /\ ev.a = quoteBuy(State, amount)
                                /\ ev.b = value
                         /\ r.st.remainingForSaleClear = remainingForSaleClear - amount
                         /\ r.st.ethBalance[Self] = ethBalance[Self] + quoteBuy(State, amount)
                    ELSE r.events = <<>>)
    /\ [][EventCount(receipt'.events, "TokenPurchased") =
            IF receipt'.op = "buy" /\ receipt'.ok THEN 1 ELSE 0]_vars
    /\ [][(receipt'.op = "buy" /\ receipt'.ok) =>
            LET ev == receipt'.events[Len(receipt'.events)]
            IN  /\ ev.name = "TokenPurchased"
                /\ ev.who = receipt'.input.sender
                /\ ev.amount = receipt'.input.amount
                /\ ev.a = quoteBuy(State, receipt'.input.amount)
                /\ ev.b = receipt'.input.value
                /\ soldTotal' = soldTotal + ev.amount]_vars

C27_Witness ==
    /\ BuySucceeded
    /\ receipt.nested = "ok"
    /\ Len(receipt.events) = 2
    /\ Purchase.b > Purchase.a
    /\ Purchase.a # quoteBuy(State, Purchase.amount)

\* C28: at a price of 0 the quote is 0 for every amount; a buy of
\* 1 .. remaining units succeeds with no payment; with a payment attached
\* the caller gets all of it back and the ledger's wei balance stays as it
\* was: by the refund when the caller accepts it (the buy succeeds), by the
\* revert of the whole buy when the caller refuses it.
C28_FreeLedger ==
    pricePerTokenWei = 0 =>
        /\ \A amount \in Amounts : quoteBuy(State, amount) = 0
        /\ \A sender \in Accounts, amount \in 1 .. remainingForSaleClear :
              \A value \in Values(sender), cb \in Callbacks :
                 LET r == buy(State, sender, amount, value, cb)
                 IN  /\ r.st.ethBalance = ethBalance
                     /\ (value = 0 \/ cb.accept) =>
                           /\ r.ok
                           /\ r.st.remainingForSaleClear = remainingForSaleClear - amount
                           /\ r.st.confidentialBalance[sender] =
                                 confidentialBalance[sender] + amount
                           /\ r.events[Len(r.events)].a = 0
                           /\ r.events[Len(r.events)].b = value
                     /\ (value > 0 /\ ~cb.accept) => (~r.ok /\ r.st = State)

C28_Witness ==
    /\ BuySucceeded
    /\ Purchase.a = 0
    /\ Purchase.b = InitialWei
    /\ \A h \in Holders : ethBalance[h] = IF h = Self THEN 0 ELSE InitialWei
    /\ receipt.nested = "-"

\* C29: between transactions the guard is free, every top-level buy and
\* withdraw, accepted or refused at any check or at the value transfer,
\* ends with the guard free, and none of them is refused for the guard.
C29_GuardReleased ==
    /\ status = NOT_ENTERED
    /\ \A sender \in Accounts, amount \in Amounts :
          \A value \in Values(sender) : \A cb \in BuyCallbacks(amount, value) :
             LET r == buy(State, sender, amount, value, cb)
             IN  r.st.status = NOT_ENTERED /\ r.err # Reentrant
    /\ \A sender \in Accounts, to \in Recipients, amountWei \in WeiAmounts :
          \A cb \in WithdrawCallbacks(sender, to, amountWei) :
             LET r == withdraw(State, sender, to, amountWei, cb)
             IN  r.st.status = NOT_ENTERED /\ r.err # Reentrant

\* a payout whose receiver called back into the guarded ledger and was
\* refused has finished, and the guard is free again
C29_Witness ==
    /\ receipt.op = "withdraw"
    /\ receipt.ok
    /\ receipt.nested = Reentrant
    /\ status = NOT_ENTERED

\* C25: reference scenario, wei in units of 0.001 ETH. On the ledger created
\* with supply 10 000 000 and price 0.001 ETH per token, quoteBuy(2 000 000)
\* is 0.002 ETH; the buyer's buy of 2 000 000 paying that succeeds and leaves
\* 8 000 000 for sale, 2 000 000 with the buyer and 0.002 ETH on the ledger;
\* the owner's withdraw of 0.002 ETH then succeeds, credits the owner that
\* amount and leaves the ledger with 0.
C25_ReferenceScenario ==
    (deployed = 1 /\ receipt.op = "createToken") =>
        /\ totalSupplyClear = 10000000
        /\ remainingForSaleClear = 10000000
        /\ owner = Creator
        /\ quoteBuy(State, 2000000) = 2
        /\ LET b == buy(State, Buyer, 2000000, 2, PlainAccept)
               w == withdraw(b.st, Creator, Creator, 2, PlainAccept)
           IN  /\ b.ok
               /\ b.st.remainingForSaleClear = 8000000
               /\ b.st.confidentialBalance[Buyer] = 2000000
               /\ b.st.ethBalance[Self] = 2
               /\ w.ok
               /\ w.st.ethBalance[Creator] = b.st.ethBalance[Creator] + 2
               /\ w.st.ethBalance[Self] = 0

\* the three transactions of the scenario have run, in one purchase
C25_Witness ==
    /\ receipt.op = "withdraw"
    /\ receipt.ok
    /\ receipt.input.amount = 2
    /\ remainingForSaleClear = 8000000
    /\ confidentialBalance[Buyer] = 2000000
    /\ confidentialBalance[Creator] = 0
    /\ ethBalance[Self] = 0
    /\ ethBalance[Creator] = InitialWei + 2
    /\ ethBalance[Buyer] = InitialWei - 2

\* C23: every amount and every supply that a client sent to the chain, in a
\* read or in a transaction, lies in 1 .. 2^64-1 (here 1 .. MAX_UINT64):
\* for a zero, negative or over-wide one nothing is sent.
C23_ClientsRejectOutOfRange ==
    \A i \in DOMAIN requests :
       requests[i].amount >= 1 /\ requests[i].amount <= MAX_UINT64

CreatorListLengths == [c \in Accounts |-> Len(getTokensByCreator(Registry, c))]

C37_Partition ==
    /\ [](/\ \A i \in 1 .. allTokensLength(Registry) :
              LET token == getAllTokens(Registry)[i]
                  holders == {c \in Accounts :
                                Occurrences(getTokensByCreator(Registry, c), token) > 0}
              IN  /\ Cardinality(holders) = 1
                  /\ \A c \in holders :
                        Occurrences(getTokensByCreator(Registry, c), token) = 1
           /\ allTokensLength(Registry) = SumOver(CreatorListLengths, Accounts))
    /\ [][(receipt'.op = "createToken" /\ receipt'.ok) =>
             LET token == receipt'.data[1]
             IN  /\ Occurrences(allTokens, token) = 0
                 /\ Occurrences(allTokens', token) = 1
                 /\ \A c \in Accounts :
                       Occurrences(tokensByCreator'[c], token) =
                          IF c = receipt'.input.sender THEN 1 ELSE 0]_vars

\* one creator made two ledgers, the other none
C37_Witness ==
    /\ allTokensLength(Registry) = 2
    /\ \E c \in Accounts :
          /\ getTokensByCreator(Registry, c) = getAllTokens(Registry)
          /\ \A d \in Accounts \ {c} : getTokensByCreator(Registry, d) = <<>>

\* C31: the ledger's own token balance is at least remainingForSaleClear,
\* and exceeds it only by what holders transferred to the ledger's address;
\* so every buy that passes its checks moves the full amount from the ledger
\* to the buyer.
Excess == confidentialBalance[Self] - remainingForSaleClear

C31_LedgerCoversSale ==
    /\ [](/\ confidentialBalance[Self] >= remainingForSaleClear
           /\ \A sender \in Accounts, amount \in Amounts : \A value \in Values(sender) :
                 LET r == buy(State, sender, amount, value, PlainAccept)
                 IN  r.ok =>
                       /\ r.st.confidentialBalance[sender] =
                             confidentialBalance[sender] + amount
                       /\ r.st.confidentialBalance[Self] =
                             confidentialBalance[Self] - amount)
    /\ [][Excess' # Excess =>
             /\ receipt'.op = "confidentialTransfer"
             /\ receipt'.ok
             /\ receipt'.input.to = Self
             /\ Excess' = Excess + receipt'.input.amount]_vars

\* a buy went through on a ledger that holds returned tokens besides those
\* for sale
C31_Witness ==
    /\ BuySucceeded
    /\ Excess > 0
    /\ remainingForSaleClear = 0

\* -------------------------------------------------------------------- C32
\* the ledger's state apart from the receipt of the last transaction
Books == <<totalSupplyClear, remainingForSaleClear, pricePerTokenWei, owner, status,
           confidentialBalance, ethBalance, soldTotal, collectedWei, withdrawnWei>>

\* account a sends the buy it has a quote for, the amount is on sale, the
\* account can pay the quote, and no purchase was made since the quote
SendsQuoted(a) ==
    /\ pending[a].stage = "quoted"
    /\ pending'[a].stage = "done"
    /\ pending[a].amount \in 1 .. remainingForSaleClear
    /\ pending[a].left = remainingForSaleClear
    /\ pending[a].requiredWei <= ethBalance[a]

\* C32: a buy sent with the value quoted earlier, when only price changes lie
\* between the quote and the buy: if the quote at the price now in force is
\* above the value, the buy fails with InsufficientPayment and changes
\* nothing; otherwise it succeeds, the buyer receives the tokens and is
\* poorer by exactly the quote at the price now in force, the rest of the
\* value having been refunded, and that is no more than the earlier quote.
C32_StaleQuote ==
    [][\A a \in Accounts :
         SendsQuoted(a) =>
           LET p == pending[a]
               current == quoteBuy(State, p.amount)
           IN  IF p.requiredWei < current
               THEN /\ ~receipt'.ok
                    /\ receipt'.err = "InsufficientPayment"
                    /\ Books' = Books
               ELSE /\ receipt'.ok
                    /\ ethBalance[a] - ethBalance'[a] = current
                    /\ ethBalance'[Self] - ethBalance[Self] = current
                    /\ current <= p.requiredWei
                    /\ confidentialBalance'[a] = confidentialBalance[a] + p.amount
                    /\ receipt'.events = <<TokenPurchased(a, p.amount, current, p.requiredWei)>>]_vars

\* a buy sent with an earlier quote has succeeded and part of its value was
\* refunded: the price was lowered between the quote and the buy
C32_Witness ==
    /\ receipt.op = "buy" /\ receipt.ok
    /\ pending[receipt.input.sender].stage = "done"
    /\ pending[receipt.input.sender].result = "ok"
    /\ receipt.input.value > receipt.events[1].a
    /\ receipt.events[1].a > 0

\* -------------------------------------------------------------------- C33
\* both accounts passed the front end's check against the same snapshot of
\* the remaining supply, b's buy was applied, and a's buy is applied now
SecondOfTwo(a, b) ==
    /\ a # b
    /\ pending[a].via = "card" /\ pending[b].via = "card"
    /\ pending[a].seen = pending[b].seen
    /\ pending[b].stage = "done" /\ pending[b].result = "ok"
    /\ pending[a].stage = "quoted" /\ pending'[a].stage = "done"
    /\ pending[a].requiredWei <= ethBalance[a]

\* C33: two buyers passed the front end's check against the same snapshot
\* and both sent their buy. The second buy applied fails with SoldOut exactly
\* when the two amounts together exceed the supply of the snapshot, and then
\* nothing changes: the buyer keeps the value. The total sold never exceeds
\* totalSupplyClear.
C33_StaleSnapshot ==
    /\ [](soldTotal <= totalSupplyClear /\ remainingForSaleClear >= 0)
    /\ [][\A a, b \in Accounts :
            SecondOfTwo(a, b) =>
              IF pending[a].amount + pending[b].amount > pending[a].seen
              THEN /\ ~receipt'.ok
                   /\ receipt'.err = "SoldOut"
                   /\ Books' = Books
              ELSE receipt'.err # "SoldOut"]_vars

\* both buyers saw the same supply, the first bought, the second was refused
C33_Witness ==
    \E a, b \in Accounts :
        /\ a # b
        /\ pending[a].via = "card" /\ pending[b].via = "card"
        /\ pending[a].seen = pending[b].seen
        /\ pending[a].amount <= pending[a].seen
        /\ pending[b].stage = "done" /\ pending[b].result = "ok"
        /\ pending[a].stage = "done" /\ pending[a].result = "SoldOut"
        /\ receipt.err = "SoldOut"
        /\ ethBalance[a] = InitialWei

\* -------------------------------------------------------------------- C34
\* C34: the address task:token:create learned from its static call is the
\* address of the ledger its transaction deploys, the one appended to the
\* registry, whatever is ordered between the two.
C34_PredictedAddress ==
    [][\A a \in Accounts :
         (pending[a].stage = "predicted" /\ pending'[a].stage = "done" /\ receipt'.ok)
           => /\ receipt'.data = <<pending[a].predicted>>
              /\ allTokens'[Len(allTokens')] = pending[a].predicted]_vars

\* -------------------------------------------------------------------- C35
\* the run leaves in this step
Finishing(run) == run \in market.runs /\ market'.runs = market.runs \ {run}

\* the run that took the last number, the last one that passed the checks
Latest(run) == run.loadId = market.loadIdRef

\* the token list or the set of own tokens is written in this step
ListWritten ==
    market'.tokens # market.tokens \/ market'.myTokenAddresses # market.myTokenAddresses

CheckMessages == {"Public client not available.", "Enter a valid factory address."}

\* C35 as the specification states it: while loads are under way, the token
\* list, the set of own tokens and the error message are written only by the
\* run started last that passed the checks, as it starts or as it finishes.
C35_OnlyLatestWrites ==
    [][(market.runs # {} /\ (ListWritten \/ market'.error # market.error))
         => \/ market'.loadIdRef = market.loadIdRef + 1
            \/ \E run \in market.runs : Finishing(run) /\ Latest(run)]_vars

\* C35, amended: the token list and the set of own tokens are written only
\* by the finishing run that took the last number, and they become its rows,
\* own tokens first; a finishing run that did not take the last number
\* writes nothing; the error message is written by the latest run failing,
\* by a run that starts (cleared), and by a call that fails the checks, which
\* writes its message and takes no number, so that a run under way still
\* writes its result afterwards.
C35_LatestRunWrites ==
    [][/\ ListWritten =>
            \E run \in market.runs :
               /\ Finishing(run) /\ Latest(run) /\ run.got.state = "rows"
               /\ market'.tokens = sortMineFirst(run.got.rows, run.got.mySet)
               /\ market'.myTokenAddresses = run.got.mySet
       /\ \A run \in market.runs :
             (Finishing(run) /\ ~Latest(run)) =>
                /\ ~ListWritten
                /\ market'.error = market.error
                /\ market'.isLoading = market.isLoading
       /\ market'.error # market.error =>
            \/ market'.loadIdRef = market.loadIdRef + 1 /\ market'.error = "null"
            \/ \E run \in market.runs :
                  /\ Finishing(run) /\ Latest(run) /\ run.got.state = "error"
                  /\ market'.error = run.got.message
            \/ /\ market'.loadIdRef = market.loadIdRef
               /\ market'.runs = market.runs
               /\ market'.error \in CheckMessages]_vars

\* the latest run has finished and its rows are shown, while an older run
\* holds other rows and has yet to finish
C35_Witness ==
    /\ ~market.isLoading
    /\ Len(market.tokens) > 0
    /\ \E run \in market.runs :
          /\ run.loadId < market.loadIdRef
          /\ run.got.state = "rows"
          /\ run.got.rows # market.tokens

\* -------------------------------------------------------------------- C36
\* C36: the loading flag is true exactly while the load started last is under
\* way, whatever older loads do; with no load under way the flag is false.
C36_LoadingFlag ==
    /\ market.isLoading <=> \E run \in market.runs : run.loadId = market.loadIdRef
    /\ market.runs = {} => ~market.isLoading

\* the load started last has finished and the flag is down, with an older
\* load still under way
C36_Witness ==
    /\ ~market.isLoading
    /\ market.loadIdRef >= 2
    /\ \E run \in market.runs : run.loadId < market.loadIdRef

====
